---- MODULE Spec2Model ----
(***************************************************************************)
(* Atom selection and distance measurement of the molecule viewer          *)
(* (src/main.js, initializeMoleculeViewer).                                *)
(*                                                                         *)
(* Lengths are integers in thousandths of an Angstrom, so the PDB          *)
(* coordinate 1.396 is 1396.  Math.sqrt is modelled at that resolution     *)
(* (the largest integer whose square does not exceed the argument), and    *)
(* Number.toFixed(2) as rounding to hundredths of an Angstrom.             *)
(* Every event handler runs to completion (one JavaScript task), so each   *)
(* handler is one action; trace records the viewer and DOM calls the last  *)
(* handler made, in order.                                                 *)
(***************************************************************************)
EXTENDS Integers, Sequences, FiniteSets, TLC

VARIABLES
    selectedAtoms,     \* const selectedAtoms = []          (main.js:77)
    measurementShape,  \* let measurementShape = null       (main.js:78), 0 is null
    viewerShapes,      \* shape primitives held by the 3Dmol viewer
    atomStyles,        \* style of every atom of the model, by serial
    ui,                \* read-outs written by updateUI
    trace,             \* calls made by the handler that ran last
    shapesPeak,        \* most shapes the viewer held at once during that handler
    emitted,           \* atomselectionchange events dispatched by that handler
    lastOp,            \* the handler that ran last and the click it received
    modelAtoms         \* the atom objects of the model returned by viewer.addModel

\* build3DMolAtoms (frontend MoleculeViewer)
VARIABLES
    adjInput,          \* the argument of build3DMolAtoms: <<>> or <<molecule>>
    adjOutput,         \* the array it returned
    adjDone            \* whether it has returned

\* MoleculeViewer component and load3DMol (frontend)
VARIABLES
    loaderVariant,     \* which load3DMol is linked: "utils" (load3dmol.js) or "inline"
    engineGlobal,      \* window.$3Dmol / window["3Dmol"] is set
    loaderPromise,     \* let loaderPromise = null (load3dmol.js), 0 is null
    promises,          \* the promises load3DMol returned, by the mount that called
    scripts,           \* the script elements load3DMol appended to document.head
    mounts,            \* refs, state and effect closure of every mount of the component
    vcalls,            \* viewer calls made by the handler that ran last
    unhandled,         \* an exception or rejection escaped a handler
    lastEvent,         \* the handler that ran last and the mount it belongs to
    now                \* the clock of the page, in milliseconds

\* The stand-alone page (src/main.js of the Three.js scene)
VARIABLES
    page,                          \* what the page offers: #viewer, #viewer-status, window.$3Dmol, ResizeObserver
    moleculeViewer,                \* let moleculeViewer = null (TRUE: a viewer)
    viewerResizeObserver,          \* let viewerResizeObserver = null (TRUE: an observer)
    hasBoundViewerResizeListener,  \* let hasBoundViewerResizeListener = false
    viewerStatus,                  \* the #viewer-status element: text and is-hidden
    standalone,                    \* initialiseMoleculeViewer was called, the download, the hide timer
    standCalls,                    \* viewer and console calls of the handler that ran last
    standOp                        \* the handler that ran last

selectionVars == <<selectedAtoms, measurementShape, viewerShapes, atomStyles, ui,
                   trace, shapesPeak, emitted, lastOp, modelAtoms>>

adjacencyVars == <<adjInput, adjOutput, adjDone>>

viewerVars == <<loaderVariant, engineGlobal, loaderPromise, promises, scripts,
                mounts, vcalls, unhandled, lastEvent, now>>

standaloneVars == <<page, moleculeViewer, viewerResizeObserver,
                    hasBoundViewerResizeListener, viewerStatus, standalone,
                    standCalls, standOp>>

vars == <<selectionVars, adjacencyVars, viewerVars, standaloneVars>>

\* What the handlers of the selection page leave alone.
outsideSelection == <<adjacencyVars, viewerVars, standaloneVars>>

\* What build3DMolAtoms leaves alone.
outsideAdjacency == <<selectionVars, viewerVars, standaloneVars>>

\* What the MoleculeViewer component leaves alone.
outsideViewer == <<selectionVars, adjacencyVars, standaloneVars>>

\* What the stand-alone page leaves alone.
outsideStandalone == <<selectionVars, adjacencyVars, viewerVars>>

----------------------------------------------------------------------------
(* Bounds *)

\* Coordinates of the inputs of the distance specification are
\* 0, 1000, .., GridMax * 1000.
GridMax == 1

\* The atom objects of serials 1..MaxMutated can be changed after the model
\* was loaded.
MaxMutated == 1

\* The molecules handed to build3DMolAtoms have up to MaxBonds bonds.
MaxBonds == 2

\* The MoleculeViewer component is mounted up to MaxMounts times, one mount
\* after the other.
MaxMounts == 2

\* The host supplies molecules 1..NumMolecules (0 is no molecule).
NumMolecules == 2

\* The camera is never more than MaxZoom zoom steps from the fitted view.
MaxZoom == 1

\* The clock of the page is followed for MaxTicks ticks.
MaxTicks == 3

----------------------------------------------------------------------------
(* Constants of the program *)

BASE_STYLE == "Jmol"

HIGHLIGHT_COLORS == <<"#fb7185", "#38bdf8">>

HIGHLIGHT_STYLES == [i \in 1..Len(HIGHLIGHT_COLORS) |-> HIGHLIGHT_COLORS[i]]

\* A palette read that gives its first entry for every slot.
highlightStyle_First(index) == HIGHLIGHT_STYLES[1]

\* HIGHLIGHT_STYLES[index] as JavaScript reads it (index from 1 here):
\* undefined past the end of the palette.
highlightStyle(index) ==
    IF index \in DOMAIN HIGHLIGHT_STYLES THEN HIGHLIGHT_STYLES[index]
                                         ELSE "undefined"

\* HETATM records of SAMPLE_PDB: serial -> <<name, element, x, y, z>>
SAMPLE_PDB ==
    <<  <<"C1", "C",  1396,     0, 0>>,
        <<"C2", "C",   698,  1209, 0>>,
        <<"C3", "C",  -698,  1209, 0>>,
        <<"C4", "C", -1396,     0, 0>>,
        <<"C5", "C",  -698, -1209, 0>>,
        <<"C6", "C",   698, -1209, 0>>,
        <<"H1", "H",  2479,     0, 0>>,
        <<"H2", "H",  1240,  2154, 0>>,
        <<"H3", "H", -1240,  2154, 0>>,
        <<"H4", "H", -2479,     0, 0>>,
        <<"H5", "H", -1240, -2154, 0>>,
        <<"H6", "H",  1240, -2154, 0>> >>

Serials == 1..Len(SAMPLE_PDB)

\* The atom object the viewer holds for a serial after viewer.addModel:
\* the fields copyAtom reads and further ones it does not.
ModelAtom(s) ==
    [serial |-> s,
     atom   |-> SAMPLE_PDB[s][1],
     elem   |-> SAMPLE_PDB[s][2],
     resn   |-> "BEN",
     resi   |-> 1,
     chain  |-> "A",
     x      |-> SAMPLE_PDB[s][3],
     y      |-> SAMPLE_PDB[s][4],
     z      |-> SAMPLE_PDB[s][5],
     index  |-> s - 1,
     hetflag |-> TRUE]

\* An atom object without a serial property.
WithoutSerial(a) == [f \in (DOMAIN a) \ {"serial"} |-> a[f]]

\* What a click callback can receive: no atom (<<>>), an atom of the
\* model, or an atom object that carries no serial.
Clicks ==
    {<<>>} \cup {<<modelAtoms[s]>> : s \in Serials}
           \cup {<<WithoutSerial(modelAtoms[s])>> : s \in {1}}

----------------------------------------------------------------------------
(* Pure helpers of initializeMoleculeViewer *)

copyAtom(atom) ==
    [serial |-> atom.serial,
     atom   |-> atom.atom,
     elem   |-> atom.elem,
     resn   |-> atom.resn,
     resi   |-> atom.resi,
     chain  |-> atom.chain,
     x      |-> atom.x,
     y      |-> atom.y,
     z      |-> atom.z]

RECURSIVE SqrtSearch(_, _, _)
SqrtSearch(n, lo, hi) ==
    IF lo = hi THEN lo
    ELSE LET mid == (lo + hi + 1) \div 2
         IN  IF mid * mid <= n THEN SqrtSearch(n, mid, hi)
                               ELSE SqrtSearch(n, lo, mid - 1)

\* Math.sqrt at the resolution of the model.
Sqrt(n) == SqrtSearch(n, 0, 46340)

\* computeDistance with the z term left out.
computeDistance_Planar(left, right) ==
    LET dx == left.x - right.x
        dy == left.y - right.y
    IN  Sqrt(dx * dx + dy * dy)

computeDistance(left, right) ==
    LET dx == left.x - right.x
        dy == left.y - right.y
        dz == left.z - right.z
    IN  Sqrt(dx * dx + dy * dy + dz * dz)

\* Number.prototype.toFixed(2), as hundredths of an Angstrom.
toFixed2(d) == (d + 5) \div 10

NullDistance == [null |-> TRUE, value |-> 0]
Number(d) == [null |-> FALSE, value |-> d]

----------------------------------------------------------------------------
(* Array operations, with JavaScript's 0-based indices *)

\* Array.prototype.findIndex on the serial: first matching index, or -1.
findIndex(sel, serial) ==
    IF \E i \in 1..Len(sel) : sel[i].serial = serial
    THEN (CHOOSE i \in 1..Len(sel) :
              /\ sel[i].serial = serial
              /\ \A j \in 1..(i - 1) : sel[j].serial # serial) - 1
    ELSE -1

\* splice(0, 1) where splice(start, 1) was meant.
splice_First(sel, start) == Tail(sel)

\* Array.prototype.splice(start, 1)
splice(sel, start) ==
    [i \in 1..(Len(sel) - 1) |-> IF i <= start THEN sel[i] ELSE sel[i + 1]]

\* Array.prototype.shift
shift(sel) == Tail(sel)

\* Array.prototype.push
push(sel, e) == Append(sel, e)

----------------------------------------------------------------------------
(* handleSelection and what it calls *)

\* The guard of handleSelection: !atom || typeof atom.serial === 'undefined'
isIgnored(click) ==
    \/ click = <<>>
    \/ "serial" \notin DOMAIN click[1]

\* handleSelection without the shift of a full selection.
updateSelection_NoEvict(sel, atom) ==
    LET existingIndex == findIndex(sel, atom.serial)
    IN  IF existingIndex # -1
        THEN splice(sel, existingIndex)
        ELSE push(sel, copyAtom(atom))

\* handleSelection with pop() where shift() was meant.
updateSelection_EvictNewest(sel, atom) ==
    LET existingIndex == findIndex(sel, atom.serial)
    IN  IF existingIndex # -1
        THEN splice(sel, existingIndex)
        ELSE push(IF Len(sel) = 2 THEN SubSeq(sel, 1, 1) ELSE sel, copyAtom(atom))

\* The selection after handleSelection's toggle / evict / push.
updateSelection(sel, atom) ==
    LET existingIndex == findIndex(sel, atom.serial)
    IN  IF existingIndex # -1
        THEN splice(sel, existingIndex)
        ELSE push(IF Len(sel) = 2 THEN shift(sel) ELSE sel, copyAtom(atom))

\* model.setStyle({}, BASE_STYLE), then one setStyle per selected atom with
\* the palette entry of its slot; a later call overrides an earlier one.
RECURSIVE applyHighlights(_, _, _)
applyHighlights(styles, sel, index) ==
    IF index > Len(sel) THEN styles
    ELSE applyHighlights(
             [s \in DOMAIN styles |->
                 IF s = sel[index].serial THEN highlightStyle(index)
                                          ELSE styles[s]],
             sel, index + 1)

applyStyles(sel) ==
    [styles |-> applyHighlights([s \in Serials |-> BASE_STYLE], sel, 1),
     calls  |-> <<"setStyleAll">> \o [i \in 1..Len(sel) |-> "setStyleSerial"]]

Max(a, b) == IF a >= b THEN a ELSE b

\* A handle the viewer has not handed out for a shape it still holds.
newHandle(shapes) ==
    CHOOSE h \in 1..(Cardinality(shapes) + 1) : \A sh \in shapes : sh.handle # h

\* viewer.removeShape(handle)
removeShape(shapes, handle) == {sh \in shapes : sh.handle # handle}

\* viewer.addCylinder({start, end, ...})
addCylinder(shapes, first, second) ==
    shapes \cup {[handle |-> newHandle(shapes),
                  start  |-> [x |-> first.x, y |-> first.y, z |-> first.z],
                  end    |-> [x |-> second.x, y |-> second.y, z |-> second.z]]}

\* updateMeasurementVisual that overwrites the handle without removing the
\* shape it referred to.
updateMeasurementVisual_NoRemove(shapes, handle, sel) ==
    LET added   == Len(sel) = 2
        shapes2 == IF added THEN addCylinder(shapes, sel[1], sel[2]) ELSE shapes
    IN  [shapes |-> shapes2,
         handle |-> IF added THEN newHandle(shapes) ELSE 0,
         calls  |-> IF added THEN <<"addCylinder">> ELSE <<>>,
         peak   |-> Max(Cardinality(shapes), Cardinality(shapes2))]

updateMeasurementVisual(shapes, handle, sel) ==
    LET removed  == handle # 0
        shapes1  == IF removed THEN removeShape(shapes, handle) ELSE shapes
        added    == Len(sel) = 2
        shapes2  == IF added THEN addCylinder(shapes1, sel[1], sel[2]) ELSE shapes1
    IN  [shapes |-> shapes2,
         handle |-> IF added THEN newHandle(shapes1) ELSE 0,
         calls  |-> (IF removed THEN <<"removeShape">> ELSE <<>>)
                    \o (IF added THEN <<"addCylinder">> ELSE <<>>),
         peak   |-> Max(Cardinality(shapes),
                        Max(Cardinality(shapes1), Cardinality(shapes2)))]

\* refreshScene that renders before it restyles and replaces the primitive.
refreshScene_RenderFirst(shapes, handle, sel) ==
    LET st == applyStyles(sel)
        mv == updateMeasurementVisual(shapes, handle, sel)
    IN  [styles |-> st.styles,
         shapes |-> mv.shapes,
         handle |-> mv.handle,
         peak   |-> mv.peak,
         calls  |-> <<"render">> \o st.calls \o mv.calls]

refreshScene(shapes, handle, sel) ==
    LET st == applyStyles(sel)
        mv == updateMeasurementVisual(shapes, handle, sel)
    IN  [styles |-> st.styles,
         shapes |-> mv.shapes,
         handle |-> mv.handle,
         peak   |-> mv.peak,
         calls  |-> st.calls \o mv.calls \o <<"render">>]

\* The detail of the CustomEvent built by emitSelectionChange.
emitSelectionChange(sel, distance) ==
    [atoms |-> [i \in 1..Len(sel) |->
                   [index        |-> i - 1,
                    serial       |-> sel[i].serial,
                    element      |-> sel[i].elem,
                    name         |-> sel[i].atom,
                    residue      |-> sel[i].resn,
                    residueIndex |-> sel[i].resi,
                    chain        |-> sel[i].chain,
                    coordinates  |-> [x |-> sel[i].x, y |-> sel[i].y,
                                      z |-> sel[i].z]]],
     distance |-> distance]

\* The text formatAtom builds, kept as its parts.
formatAtom(atom) ==
    [name        |-> atom.atom,
     serial      |-> atom.serial,
     location    |-> <<atom.resn, atom.resi, atom.chain>>,
     coordinates |-> <<toFixed2(atom.x), toFixed2(atom.y), toFixed2(atom.z)>>]

\* updateUI measuring as soon as anything is selected.
currentDistance_AnySelected(sel) ==
    IF Len(sel) >= 1 THEN Number(computeDistance(sel[1], sel[Len(sel)]))
                     ELSE NullDistance

\* The distance updateUI computes and hands to emitSelectionChange.
currentDistance(sel) ==
    IF Len(sel) = 2 THEN Number(computeDistance(sel[1], sel[2]))
                    ELSE NullDistance

\* updateUI that notifies only inside its two-atom branch.
updateUI_EmitOnlyMeasured(sel) ==
    LET distance == currentDistance(sel)
    IN  [ui |-> [slots    |-> [i \in 1..2 |->
                                  IF i <= Len(sel) THEN <<formatAtom(sel[i])>>
                                                   ELSE <<>>],
                 distance |-> IF distance.null THEN NullDistance
                              ELSE Number(toFixed2(distance.value)),
                 status   |-> Len(sel),
                 clearDisabled |-> Len(sel) = 0],
         events |-> IF Len(sel) = 2
                    THEN <<emitSelectionChange(sel, distance)>> ELSE <<>>,
         calls  |-> IF Len(sel) = 2 THEN <<"dispatchEvent">> ELSE <<>>]

updateUI(sel) ==
    LET distance == currentDistance(sel)
    IN  [ui |-> [slots    |-> [i \in 1..2 |->
                                  IF i <= Len(sel) THEN <<formatAtom(sel[i])>>
                                                   ELSE <<>>],
                 distance |-> IF distance.null THEN NullDistance
                              ELSE Number(toFixed2(distance.value)),
                 status   |-> Len(sel),
                 clearDisabled |-> Len(sel) = 0],
         events |-> <<emitSelectionChange(sel, distance)>>,
         calls  |-> <<"dispatchEvent">>]

----------------------------------------------------------------------------
(* State machine *)

NoClick == <<>>

\* Camera scales and zoom factors are fractions in lowest terms.
RECURSIVE gcd(_, _)
gcd(a, b) == IF b = 0 THEN a ELSE gcd(b, a % b)

ratio(n, d) == [num |-> n \div gcd(n, d), den |-> d \div gcd(n, d)]

times(p, q) == ratio(p.num * q.num, p.den * q.den)

\* 1 / q
reciprocal(q) == ratio(q.den, q.num)

\* The camera of a viewer that showed nothing yet.
InitialView == [model |-> 0, scale |-> ratio(1, 1)]

\* A mount of the component that has not happened yet.
NoMount ==
    [phase         |-> "none",
     cancelled     |-> FALSE,
     promise       |-> 0,
     continued     |-> FALSE,
     constructed   |-> 0,
     viewerRef     |-> FALSE,
     status        |-> [loading |-> TRUE, error |-> ""],
     molecule      |-> 0,
     title         |-> "",
     models        |-> 0,
     atoms         |-> <<>>,
     view          |-> InitialView,
     animation     |-> 0,
     defaultViewRef |-> <<>>,
     toast         |-> "",
     toastTimerRef |-> 0,
     timers        |-> {},
     resizeListener |-> FALSE]

NoPromise == [state |-> "none", reason |-> ""]

\* The #viewer-status element as the markup of the page has it.
MarkupStatus(hidden) == [text |-> "markup", hidden |-> hidden]

\* initialiseMoleculeViewer has not been called.
NotCalled == [called |-> FALSE, download |-> "none", hideTimer |-> FALSE]

\* The stand-alone page is not in use.
StandaloneIdle ==
    /\ page = [viewerContainer |-> TRUE, viewerStatusEl |-> TRUE,
               engine |-> TRUE, ResizeObserver |-> TRUE]
    /\ moleculeViewer = FALSE
    /\ viewerResizeObserver = FALSE
    /\ hasBoundViewerResizeListener = FALSE
    /\ viewerStatus = MarkupStatus(TRUE)
    /\ standalone = NotCalled
    /\ standCalls = <<>>
    /\ standOp = "none"

\* The component is not in use.
ViewerIdle ==
    /\ loaderVariant = "utils"
    /\ engineGlobal = FALSE
    /\ loaderPromise = 0
    /\ promises = [p \in 1..MaxMounts |-> NoPromise]
    /\ scripts = <<>>
    /\ mounts = [m \in 1..MaxMounts |-> NoMount]
    /\ vcalls = <<>>
    /\ unhandled = FALSE
    /\ lastEvent = [op |-> "none", mount |-> 0]
    /\ now = 0

\* build3DMolAtoms has not been called.
AdjacencyIdle ==
    /\ adjInput = <<>>
    /\ adjOutput = <<>>
    /\ adjDone = FALSE

\* The end of initializeMoleculeViewer: refreshScene, zoomTo, render, updateUI
\* on the empty selection.
Init ==
    LET rs == refreshScene({}, 0, <<>>)
        up == updateUI(<<>>)
    IN  /\ selectedAtoms = <<>>
        /\ measurementShape = rs.handle
        /\ viewerShapes = rs.shapes
        /\ atomStyles = rs.styles
        /\ ui = up.ui
        /\ trace = rs.calls \o <<"zoomTo", "render">> \o up.calls
        /\ shapesPeak = rs.peak
        /\ emitted = up.events
        /\ lastOp = [op |-> "init", click |-> NoClick]
        /\ modelAtoms = [s \in Serials |-> ModelAtom(s)]
        /\ AdjacencyIdle
        /\ ViewerIdle
        /\ StandaloneIdle

\* handleSelection whose guard skips only the update of the selection, so
\* that an ignored click still refreshes the scene and notifies.
handleSelection_GuardOnlyUpdate(click) ==
    /\ lastOp' = [op |-> "select", click |-> click]
    /\ UNCHANGED modelAtoms
    /\ UNCHANGED outsideSelection
    /\ LET sel == IF isIgnored(click) THEN selectedAtoms
                  ELSE updateSelection(selectedAtoms, click[1])
           rs  == refreshScene(viewerShapes, measurementShape, sel)
           up  == updateUI(sel)
       IN  /\ selectedAtoms' = sel
           /\ measurementShape' = rs.handle
           /\ viewerShapes' = rs.shapes
           /\ atomStyles' = rs.styles
           /\ shapesPeak' = rs.peak
           /\ ui' = up.ui
           /\ trace' = rs.calls \o up.calls
           /\ emitted' = up.events

\* The click callback registered with viewer.setClickable / viewer.setClick.
handleSelection(click) ==
    /\ lastOp' = [op |-> "select", click |-> click]
    /\ UNCHANGED modelAtoms
    /\ UNCHANGED outsideSelection
    /\ IF isIgnored(click)
       THEN /\ trace' = <<>>
            /\ emitted' = <<>>
            /\ shapesPeak' = Cardinality(viewerShapes)
            /\ UNCHANGED <<selectedAtoms, measurementShape, viewerShapes,
                           atomStyles, ui>>
       ELSE LET sel == updateSelection(selectedAtoms, click[1])
                rs  == refreshScene(viewerShapes, measurementShape, sel)
                up  == updateUI(sel)
            IN  /\ selectedAtoms' = sel
                /\ measurementShape' = rs.handle
                /\ viewerShapes' = rs.shapes
                /\ atomStyles' = rs.styles
                /\ shapesPeak' = rs.peak
                /\ ui' = up.ui
                /\ trace' = rs.calls \o up.calls
                /\ emitted' = up.events

\* clearSelection returning early for length <= 1.
clearIsNoop_OffByOne(sel) == Len(sel) <= 1

\* clearSelection without its early return.
clearIsNoop_Never(sel) == FALSE

\* The guard of clearSelection: selectedAtoms.length === 0
clearIsNoop(sel) == Len(sel) = 0

\* The click listener of the clear button.
clearSelection ==
    /\ lastOp' = [op |-> "clear", click |-> NoClick]
    /\ UNCHANGED modelAtoms
    /\ UNCHANGED outsideSelection
    /\ IF clearIsNoop(selectedAtoms)
       THEN /\ trace' = <<>>
            /\ emitted' = <<>>
            /\ shapesPeak' = Cardinality(viewerShapes)
            /\ UNCHANGED <<selectedAtoms, measurementShape, viewerShapes,
                           atomStyles, ui>>
       ELSE LET sel == <<>>
                rs  == refreshScene(viewerShapes, measurementShape, sel)
                up  == updateUI(sel)
            IN  /\ selectedAtoms' = sel
                /\ measurementShape' = rs.handle
                /\ viewerShapes' = rs.shapes
                /\ atomStyles' = rs.styles
                /\ shapesPeak' = rs.peak
                /\ ui' = up.ui
                /\ trace' = rs.calls \o up.calls
                /\ emitted' = up.events

SelectAtom == \E click \in Clicks : handleSelection(click)

\* The stored snapshot is the very object the click delivered, as it would
\* be had handleSelection pushed the atom instead of its copy.
sharesObject_Pushed(snapshot, source) == snapshot.serial = source.serial

\* Whether a stored snapshot and an atom object of the model are one
\* object.  copyAtom returns a new object literal whose nine properties are
\* numbers and strings, so they never are.
sharesObject(snapshot, source) == FALSE

\* An atom object as changed by code outside the selection: its x moves
\* by 1 A, or back.
moved(object, s) ==
    [object EXCEPT !.x = IF object.x = ModelAtom(s).x THEN object.x + 1000
                                                      ELSE ModelAtom(s).x]

\* The environment changes the atom object of serial s in place.  Every
\* reference to that object sees the change.
mutateAtom(s) ==
    /\ lastOp' = [op |-> "mutate", click |-> NoClick]
    /\ modelAtoms' = [modelAtoms EXCEPT ![s] = moved(modelAtoms[s], s)]
    /\ selectedAtoms' =
           [i \in 1..Len(selectedAtoms) |->
               IF sharesObject(selectedAtoms[i], modelAtoms[s])
               THEN moved(selectedAtoms[i], s)
               ELSE selectedAtoms[i]]
    /\ trace' = <<>>
    /\ emitted' = <<>>
    /\ shapesPeak' = Cardinality(viewerShapes)
    /\ UNCHANGED <<measurementShape, viewerShapes, atomStyles, ui>>
    /\ UNCHANGED outsideSelection

MutateAtom == \E s \in 1..MaxMutated : mutateAtom(s)

Next ==
    \/ SelectAtom
    \/ clearSelection
    \/ MutateAtom

Spec == Init /\ [][Next]_vars

----------------------------------------------------------------------------
(* computeDistance as a function: updateUI applied to any two snapshots *)

GridCoords == {1000 * k : k \in 0..GridMax}

\* A snapshot (the fields copyAtom keeps) at a grid point.
GridAtom(x, y, z) ==
    [serial |-> 0, atom |-> "X", elem |-> "X", resn |-> "GRD",
     resi |-> 1, chain |-> "A", x |-> x, y |-> y, z |-> z]

\* Snapshots handed to computeDistance: every grid point and every atom of
\* the sample.
Snapshots ==
    {GridAtom(x, y, z) : x \in GridCoords, y \in GridCoords, z \in GridCoords}
    \cup {copyAtom(ModelAtom(s)) : s \in Serials}

InitDistance ==
    /\ selectedAtoms \in {<<l, r>> : l \in Snapshots, r \in Snapshots}
    /\ measurementShape = 0
    /\ viewerShapes = {}
    /\ atomStyles = [s \in Serials |-> BASE_STYLE]
    /\ ui = updateUI(<<>>).ui
    /\ trace = <<>>
    /\ shapesPeak = 0
    /\ emitted = <<>>
    /\ lastOp = [op |-> "inputs", click |-> NoClick]
    /\ modelAtoms = [s \in Serials |-> ModelAtom(s)]
    /\ AdjacencyIdle
    /\ ViewerIdle
    /\ StandaloneIdle

\* updateUI on the two snapshots: main.js:185-189 and 208.
ReportDistance ==
    /\ lastOp.op = "inputs"
    /\ lastOp' = [op |-> "updateUI", click |-> NoClick]
    /\ LET up == updateUI(selectedAtoms)
       IN  /\ ui' = up.ui
           /\ emitted' = up.events
           /\ trace' = up.calls
    /\ UNCHANGED <<selectedAtoms, measurementShape, viewerShapes, atomStyles,
                   shapesPeak, modelAtoms>>
    /\ UNCHANGED outsideSelection

NextDistance == ReportDistance

SpecDistance == InitDistance /\ [][NextDistance]_vars

----------------------------------------------------------------------------
(* build3DMolAtoms: molecule -> atoms for viewer.addAtoms, with adjacency *)

\* The selection page is not in use.
SelectionIdle ==
    /\ selectedAtoms = <<>>
    /\ measurementShape = 0
    /\ viewerShapes = {}
    /\ atomStyles = [s \in Serials |-> BASE_STYLE]
    /\ ui = updateUI(<<>>).ui
    /\ trace = <<>>
    /\ shapesPeak = 0
    /\ emitted = <<>>
    /\ lastOp = [op |-> "none", click |-> NoClick]
    /\ modelAtoms = [s \in Serials |-> ModelAtom(s)]

\* The atoms of the input molecules: those of the water sample.
AdjAtoms ==
    << [index |-> 0, element |-> "O", x |-> 0,    y |-> 0,   z |-> 0],
       [index |-> 1, element |-> "H", x |-> 957,  y |-> 0,   z |-> 0],
       [index |-> 2, element |-> "H", x |-> -240, y |-> 927, z |-> 0] >>

\* Bond endpoints: the atom indices 0 and 1, and 3, which is no atom index.
Endpoints == {0, 1, 3}

\* A bond of the input: its order is missing, negative, zero or 2.
AdjBonds ==
    {[atom1 |-> a, atom2 |-> b] : a \in Endpoints, b \in Endpoints}
    \cup {[atom1 |-> a, atom2 |-> b, order |-> o] :
              a \in Endpoints, b \in Endpoints, o \in {-1, 0, 2}}

RECURSIVE SeqsUpTo(_, _)
SeqsUpTo(S, n) ==
    IF n = 0 THEN {<<>>}
    ELSE LET shorter == SeqsUpTo(S, n - 1)
         IN  shorter \cup {Append(q, e) : q \in {r \in shorter : Len(r) = n - 1},
                                         e \in S}

\* Arguments of build3DMolAtoms: no molecule, a molecule without a bonds
\* property, and molecules with up to MaxBonds bonds.
AdjInputs ==
    {<<>>} \cup {<<[atoms |-> AdjAtoms]>>}
           \cup {<<[atoms |-> AdjAtoms, bonds |-> bs]>> : bs \in SeqsUpTo(AdjBonds, MaxBonds)}

\* molecule.bonds || []
bondsOf(molecule) ==
    IF "bonds" \in DOMAIN molecule THEN molecule.bonds ELSE <<>>

\* The Map after the first loop: an empty record for every atom index.
emptyAdjacency(molecule) ==
    [i \in {molecule.atoms[k].index : k \in 1..Len(molecule.atoms)} |->
        [indices |-> <<>>, orders |-> <<>>]]

\* build3DMolAtoms testing only the first endpoint.
bothKnown_FirstOnly(adjacency, bond) == bond.atom1 \in DOMAIN adjacency

\* The bond is not skipped: adjacency.has(atom1) && adjacency.has(atom2)
bothKnown(adjacency, bond) ==
    /\ bond.atom1 \in DOMAIN adjacency
    /\ bond.atom2 \in DOMAIN adjacency

\* bond.order || 1, without Math.max.
clampOrder_NoMax(bond) ==
    IF "order" \notin DOMAIN bond \/ bond.order = 0 THEN 1 ELSE bond.order

\* Math.max(1, bond.order || 1)
clampOrder(bond) ==
    Max(1, IF "order" \notin DOMAIN bond \/ bond.order = 0 THEN 1 ELSE bond.order)

\* A push that skips a neighbour the record already lists.
pushEntry_Dedup(adjacency, key, neighbour, order) ==
    [i \in DOMAIN adjacency |->
        IF i = key /\ \A p \in 1..Len(adjacency[i].indices) :
                          adjacency[i].indices[p] # neighbour
        THEN [indices |-> Append(adjacency[i].indices, neighbour),
              orders  |-> Append(adjacency[i].orders, order)]
        ELSE adjacency[i]]

\* record.indices.push(neighbour); record.orders.push(order) on the record of
\* key, if the Map has one.
pushEntry(adjacency, key, neighbour, order) ==
    [i \in DOMAIN adjacency |->
        IF i = key
        THEN [indices |-> Append(adjacency[i].indices, neighbour),
              orders  |-> Append(adjacency[i].orders, order)]
        ELSE adjacency[i]]

\* The body of the bond loop recording the bond at its first endpoint only.
addBond_OneWay(adjacency, bond) ==
    IF ~ bothKnown(adjacency, bond) THEN adjacency
    ELSE pushEntry(adjacency, bond.atom1, bond.atom2, clampOrder(bond))

\* The body of the bond loop for one bond.
addBond(adjacency, bond) ==
    IF ~ bothKnown(adjacency, bond) THEN adjacency
    ELSE LET order == clampOrder(bond)
         IN  pushEntry(pushEntry(adjacency, bond.atom1, bond.atom2, order),
                       bond.atom2, bond.atom1, order)

RECURSIVE addBonds(_, _, _)
addBonds(adjacency, bonds, k) ==
    IF k > Len(bonds) THEN adjacency
    ELSE addBonds(addBond(adjacency, bonds[k]), bonds, k + 1)

build3DMolAtoms(arg) ==
    IF arg = <<>> THEN <<>>
    ELSE LET molecule  == arg[1]
             adjacency == addBonds(emptyAdjacency(molecule), bondsOf(molecule), 1)
         IN  [k \in 1..Len(molecule.atoms) |->
                 LET atom == molecule.atoms[k]
                     meta == adjacency[atom.index]
                 IN  [elem      |-> atom.element,
                      x         |-> atom.x,
                      y         |-> atom.y,
                      z         |-> atom.z,
                      serial    |-> atom.index + 1,
                      index     |-> atom.index,
                      bonds     |-> meta.indices,
                      bondOrder |-> meta.orders]]

InitAdjacency ==
    /\ adjInput \in AdjInputs
    /\ adjOutput = <<>>
    /\ adjDone = FALSE
    /\ SelectionIdle
    /\ ViewerIdle
    /\ StandaloneIdle

BuildAtoms ==
    /\ ~ adjDone
    /\ adjOutput' = build3DMolAtoms(adjInput)
    /\ adjDone' = TRUE
    /\ UNCHANGED adjInput
    /\ UNCHANGED outsideAdjacency

NextAdjacency == BuildAtoms

SpecAdjacency == InitAdjacency /\ [][NextAdjacency]_vars

----------------------------------------------------------------------------
(* load3DMol: acquisition of the 3Dmol engine *)

LOAD_FAILED == "Failed to load 3Dmol.js"

NOT_EXPOSED == "3Dmol.js loaded but did not expose the global 3Dmol object."

\* A script element as load3DMol creates it: still loading, dataset.loaded
\* unset, its onload / onerror closures settle the promise `owner`, and no
\* listener added with addEventListener yet.
newScript(owner) ==
    [state |-> "loading", loaded |-> FALSE, owner |-> owner, listeners |-> {}]

\* load3DMol of utils/load3dmol.js, called by mount m.  The result is the
\* loader state after the call and the promise returned.
load3DMolUtils(m) ==
    IF engineGlobal
    THEN [promises      |-> [promises EXCEPT ![m] = [state |-> "resolved", reason |-> ""]],
          loaderPromise |-> loaderPromise,
          scripts       |-> scripts,
          promise       |-> m]
    ELSE IF loaderPromise # 0
    THEN [promises      |-> promises,
          loaderPromise |-> loaderPromise,
          scripts       |-> scripts,
          promise       |-> loaderPromise]
    ELSE [promises      |-> [promises EXCEPT ![m] = [state |-> "pending", reason |-> ""]],
          loaderPromise |-> m,
          \* document.getElementById(SCRIPT_ID) is the first script appended
          scripts       |-> IF Len(scripts) > 0
                            THEN [scripts EXCEPT ![1].listeners = @ \cup {m}]
                            ELSE <<newScript(m)>>,
          promise       |-> m]

\* load3DMol inlined in MoleculeViewer.tsx, called by mount m.
load3DMolInline(m) ==
    IF engineGlobal
    THEN [promises      |-> [promises EXCEPT ![m] = [state |-> "resolved", reason |-> ""]],
          loaderPromise |-> loaderPromise,
          scripts       |-> scripts,
          promise       |-> m]
    ELSE [promises      |-> [promises EXCEPT ![m] = [state |-> "pending", reason |-> ""]],
          loaderPromise |-> loaderPromise,
          scripts       |-> Append(scripts, newScript(m)),
          promise       |-> m]

\* load3DMol that does not look at the global first.
load3DMol_NoCache(m) ==
    IF loaderVariant = "utils" /\ loaderPromise # 0
    THEN [promises      |-> promises,
          loaderPromise |-> loaderPromise,
          scripts       |-> scripts,
          promise       |-> loaderPromise]
    ELSE [promises      |-> [promises EXCEPT ![m] = [state |-> "pending", reason |-> ""]],
          loaderPromise |-> IF loaderVariant = "utils" THEN m ELSE loaderPromise,
          scripts       |-> Append(scripts, newScript(m)),
          promise       |-> m]

load3DMol(m) ==
    IF loaderVariant = "utils" THEN load3DMolUtils(m) ELSE load3DMolInline(m)

\* resolve / reject of the promises in ps: a settled promise stays as it is.
settle(proms, ps, state, reason) ==
    [p \in DOMAIN proms |->
        IF p \in ps /\ proms[p].state = "pending"
        THEN [state |-> state, reason |-> reason]
        ELSE proms[p]]

\* The promises the load and error handlers of script k settle.
handlersOf(k) ==
    scripts[k].listeners \cup {scripts[k].owner}

\* The load event of script k; exposes tells whether running the script set
\* the global.  script.onload / handleLoad.
scriptLoad(k, exposes) ==
    /\ scripts[k].state = "loading"
    /\ LET global == engineGlobal \/ exposes
       IN  /\ engineGlobal' = global
           /\ scripts' = [scripts EXCEPT
                  ![k].state = "loaded",
                  ![k].loaded = IF loaderVariant = "utils" THEN TRUE ELSE @,
                  ![k].listeners = {}]
           /\ promises' = IF global
                          THEN settle(promises, handlersOf(k), "resolved", "")
                          ELSE settle(promises, handlersOf(k), "rejected", NOT_EXPOSED)
           /\ loaderPromise' = IF loaderVariant = "utils" /\ ~ global
                               THEN 0 ELSE loaderPromise
    /\ vcalls' = <<>>
    /\ lastEvent' = [op |-> "scriptLoad", mount |-> 0]
    /\ UNCHANGED <<loaderVariant, mounts, unhandled>>
    /\ UNCHANGED <<now, outsideViewer>>

\* The error event of script k.  script.onerror / handleError.
scriptError(k) ==
    /\ scripts[k].state = "loading"
    /\ scripts' = [scripts EXCEPT ![k].state = "failed", ![k].listeners = {}]
    /\ promises' = settle(promises, handlersOf(k), "rejected", LOAD_FAILED)
    /\ loaderPromise' = IF loaderVariant = "utils" THEN 0 ELSE loaderPromise
    /\ vcalls' = <<>>
    /\ lastEvent' = [op |-> "scriptError", mount |-> 0]
    /\ UNCHANGED <<loaderVariant, engineGlobal, mounts, unhandled>>
    /\ UNCHANGED <<now, outsideViewer>>

----------------------------------------------------------------------------
(* MoleculeViewer: the component around the 3Dmol viewer *)

CONTAINER_MISSING == "3Dmol target container is missing."

CONSTRUCTOR_FAILED == "GlViewer constructor failed"

RENDER_FAILED == "viewer.render failed"

\* The result of a handler: the mount afterwards and the viewer calls made.
Result(c, calls) == [c |-> c, calls |-> calls]

\* const ZOOM_STEP = 1.2
ZOOM_STEP == ratio(12, 10)

\* The duration of a zoom animation, in milliseconds.
ZOOM_DURATION == 250

\* The delay after which a toast is hidden, in milliseconds.
TOAST_DELAY == 2400

\* The clock is observed every TICK milliseconds.
TICK == 1200

\* setTimeout: the timer is known by the time it is due.
setTimeout(delay) == now + delay

\* clearTimeout
clearTimeout(timers, t) == timers \ {t}

\* showToast that leaves the pending timer running.
showToast_NoClear(c, message) ==
    LET t == setTimeout(TOAST_DELAY)
    IN  [c EXCEPT !.toast = message,
                  !.toastTimerRef = t,
                  !.timers = c.timers \cup {t}]

\* showToast that keeps the pending timer, if any, for the new message.
showToast_NoRestart(c, message) ==
    IF c.toastTimerRef # 0
    THEN [c EXCEPT !.toast = message]
    ELSE LET t == setTimeout(TOAST_DELAY)
         IN  [c EXCEPT !.toast = message,
                       !.toastTimerRef = t,
                       !.timers = c.timers \cup {t}]

\* showToast: replaces the pending timer, if any, and shows the message.
showToast(c, message) ==
    LET cleared == IF c.toastTimerRef # 0
                   THEN clearTimeout(c.timers, c.toastTimerRef)
                   ELSE c.timers
        t == setTimeout(TOAST_DELAY)
    IN  [c EXCEPT !.toast = message,
                  !.toastTimerRef = t,
                  !.timers = cleared \cup {t}]

\* The callback of the toast timer.
toastTimeout(c) ==
    [c EXCEPT !.toast = "", !.toastTimerRef = 0]

\* .then of the initialisation effect.  containerPresent is
\* containerRef.current; constructorThrows and renderThrows say whether
\* new $3Dmol.GlViewer and viewer.render throw.  thrown is the message of
\* the error that leaves the callback, "" if none.
thenCallback(c, containerPresent, constructorThrows, renderThrows) ==
    IF c.cancelled
    THEN [c |-> c, calls |-> <<>>, thrown |-> ""]
    ELSE IF ~ containerPresent
    THEN [c |-> c, calls |-> <<>>, thrown |-> CONTAINER_MISSING]
    ELSE IF constructorThrows
    THEN [c |-> c, calls |-> <<"GlViewer">>, thrown |-> CONSTRUCTOR_FAILED]
    ELSE IF renderThrows
    THEN [c |-> [c EXCEPT !.constructed = @ + 1, !.viewerRef = TRUE,
                          !.models = 0, !.view = InitialView],
          calls |-> <<"GlViewer", "render">>,
          thrown |-> RENDER_FAILED]
    ELSE [c |-> [c EXCEPT !.constructed = @ + 1, !.viewerRef = TRUE,
                          !.models = 0, !.view = InitialView,
                          !.status = [loading |-> FALSE, error |-> ""]],
          calls |-> <<"GlViewer", "render">>,
          thrown |-> ""]

\* .catch of the initialisation effect with no check of cancelled.
catchCallback_Unguarded(c, message) ==
    [c |-> [c EXCEPT !.status = [loading |-> FALSE, error |-> message]],
     unhandled |-> FALSE]

\* The initialisation effect without a .catch: the rejection is unhandled.
catchCallback_Missing(c, message) ==
    [c |-> c, unhandled |-> TRUE]

\* .catch of the initialisation effect.
catchCallback(c, message) ==
    [c |-> IF ~ c.cancelled
           THEN [c EXCEPT !.status = [loading |-> FALSE, error |-> message]]
           ELSE c,
     unhandled |-> FALSE]

\* handleResize that also marks the viewer as ready.
handleResize_SetsReady(c) ==
    IF c.viewerRef
    THEN Result([c EXCEPT !.status = [loading |-> FALSE, error |-> ""]],
                <<"resize", "render">>)
    ELSE Result(c, <<>>)

\* handleResize of the resize effect.
handleResize(c) ==
    IF c.viewerRef
    THEN Result(c, <<"resize", "render">>)
    ELSE Result(c, <<>>)

\* The molecules of sampleMolecules: water, carbon dioxide and methane, with
\* coordinates in thousandths of an Angstrom.
sampleMolecules ==
    << [atoms |-> AdjAtoms,
        bonds |-> << [atom1 |-> 0, atom2 |-> 1, order |-> 1],
                     [atom1 |-> 0, atom2 |-> 2, order |-> 1] >>],
       [atoms |-> << [index |-> 0, element |-> "O", x |-> -1160, y |-> 0, z |-> 0],
                     [index |-> 1, element |-> "C", x |-> 0,     y |-> 0, z |-> 0],
                     [index |-> 2, element |-> "O", x |-> 1160,  y |-> 0, z |-> 0] >>,
        bonds |-> << [atom1 |-> 0, atom2 |-> 1, order |-> 2],
                     [atom1 |-> 1, atom2 |-> 2, order |-> 2] >>],
       [atoms |-> << [index |-> 0, element |-> "C", x |-> 0,    y |-> 0,    z |-> 0],
                     [index |-> 1, element |-> "H", x |-> 629,  y |-> 629,  z |-> 629],
                     [index |-> 2, element |-> "H", x |-> -629, y |-> -629, z |-> 629],
                     [index |-> 3, element |-> "H", x |-> -629, y |-> 629,  z |-> -629],
                     [index |-> 4, element |-> "H", x |-> 629,  y |-> -629, z |-> -629] >>,
        bonds |-> << [atom1 |-> 0, atom2 |-> 1, order |-> 1],
                     [atom1 |-> 0, atom2 |-> 2, order |-> 1],
                     [atom1 |-> 0, atom2 |-> 3, order |-> 1],
                     [atom1 |-> 0, atom2 |-> 4, order |-> 1] >>] >>

\* The molecule prop the host passes: molecule 0 is null, the others are the
\* sample molecules in turn.
moleculeProp(molecule) ==
    IF molecule = 0 THEN <<>>
    ELSE <<sampleMolecules[((molecule - 1) % Len(sampleMolecules)) + 1]>>

\* A viewer whose removeAllModels leaves the atoms it holds.
removeAllModels_Keeps(held) == held

\* viewer.removeAllModels(): the viewer holds no atoms.
removeAllModels(held) == <<>>

\* viewer.addAtoms(atoms): the atoms are added to those the viewer holds.
addAtoms(held, atoms) == held \o atoms

\* The molecule effect: runs when the molecule (or title) changed.
moleculeEffect(c) ==
    IF ~ c.viewerRef \/ c.molecule = 0
    THEN Result(c, <<>>)
    ELSE LET fitted == [model |-> c.molecule, scale |-> ratio(1, 1)]
             atoms == build3DMolAtoms(moleculeProp(c.molecule))
             shown == [c EXCEPT !.models = c.molecule,
                                !.atoms = addAtoms(removeAllModels(c.atoms), atoms),
                                !.view = fitted,
                                !.animation = 0,
                                !.defaultViewRef = <<fitted>>]
         IN  Result(showToast(shown, "Loaded molecule"),
                    <<"removeAllModels", "addAtoms", "setStyle",
                      "zoomTo", "render", "getView">>)

\* resetView that renders and shows the toast but leaves the camera alone.
resetView_KeepsCamera(c) ==
    IF ~ c.viewerRef \/ c.defaultViewRef = <<>>
    THEN Result(c, <<>>)
    ELSE Result(showToast(c, "View reset"), <<"setView", "render">>)

\* resetView of the controls.
resetView(c) ==
    IF ~ c.viewerRef \/ c.defaultViewRef = <<>>
    THEN Result(c, <<>>)
    ELSE Result(showToast([c EXCEPT !.view = c.defaultViewRef[1],
                                    !.animation = 0], "View reset"),
                <<"setView", "render">>)

\* zoomIn of the controls: viewer.zoom(1 / ZOOM_STEP, 250).
zoomIn(c) ==
    IF ~ c.viewerRef
    THEN Result(c, <<>>)
    ELSE Result(showToast([c EXCEPT !.view.scale = times(@, reciprocal(ZOOM_STEP)),
                                    !.animation = ZOOM_DURATION], "Zoomed in"),
                <<"zoom", "render">>)

\* zoomOut of the controls: viewer.zoom(ZOOM_STEP, 250).
zoomOut(c) ==
    IF ~ c.viewerRef
    THEN Result(c, <<>>)
    ELSE Result(showToast([c EXCEPT !.view.scale = times(@, ZOOM_STEP),
                                    !.animation = ZOOM_DURATION], "Zoomed out"),
                <<"zoom", "render">>)

\* What is left of a component once its cleanups have run: the closure of
\* the initialisation effect (cancelled, the refs and setStatus), the timers
\* and the state as it was last set.  Its props and the viewer that no ref
\* holds any more are gone.
released(c) ==
    [c EXCEPT !.molecule = 0,
              !.title = "",
              !.models = 0,
              !.atoms = <<>>,
              !.view = InitialView,
              !.animation = 0,
              !.defaultViewRef = <<>>]

\* The cleanups as they leave the component: torn down, cancelled, no resize
\* listener.
tornDown(c) ==
    released([c EXCEPT !.phase = "unmounted",
                       !.cancelled = TRUE,
                       !.resizeListener = FALSE])

\* The cleanups with viewer.clear outside a try block: its exception leaves
\* the cleanup before the viewer reference is cleared.
cleanup_NoTry(c, clearThrows) ==
    LET timed == [c EXCEPT !.timers = IF c.toastTimerRef # 0
                                      THEN clearTimeout(@, c.toastTimerRef) ELSE @,
                           !.toastTimerRef = 0]
    IN  IF c.viewerRef /\ clearThrows
        THEN [c |-> tornDown(timed), calls |-> <<"clear">>, unhandled |-> TRUE]
        ELSE [c |-> tornDown([timed EXCEPT !.viewerRef = FALSE]),
              calls |-> IF c.viewerRef THEN <<"clear">> ELSE <<>>,
              unhandled |-> FALSE]

\* The cleanups without clearTimeout.
cleanup_KeepsTimer(c, clearThrows) ==
    [c |-> tornDown([c EXCEPT !.viewerRef = FALSE]),
     calls |-> IF ~ c.viewerRef THEN <<>>
               ELSE IF clearThrows THEN <<"clear", "catch">> ELSE <<"clear">>,
     unhandled |-> FALSE]

\* The cleanups without removeEventListener.
cleanup_KeepsListener(c, clearThrows) ==
    [c |-> [tornDown([c EXCEPT !.timers = IF c.toastTimerRef # 0
                                          THEN clearTimeout(@, c.toastTimerRef) ELSE @,
                               !.toastTimerRef = 0,
                               !.viewerRef = FALSE])
               EXCEPT !.resizeListener = c.resizeListener],
     calls |-> IF ~ c.viewerRef THEN <<>>
               ELSE IF clearThrows THEN <<"clear", "catch">> ELSE <<"clear">>,
     unhandled |-> FALSE]

\* The cleanups of the initialisation and resize effects; clearThrows says
\* whether viewer.clear throws, which the try block around it swallows.
cleanup(c, clearThrows) ==
    [c |-> tornDown([c EXCEPT !.timers = IF c.toastTimerRef # 0
                                         THEN clearTimeout(@, c.toastTimerRef) ELSE @,
                              !.toastTimerRef = 0,
                              !.viewerRef = FALSE]),
     calls |-> IF ~ c.viewerRef THEN <<>>
               ELSE IF clearThrows THEN <<"clear", "catch">> ELSE <<"clear">>,
     unhandled |-> FALSE]

\* The component is mounted with the molecule given (0 is null): the
\* initialisation effect calls load3DMol, the resize effect adds its
\* listener, the molecule effect finds no viewer.
Mount(m, molecule) ==
    /\ mounts[m].phase = "none"
    /\ \A n \in 1..(m - 1) : mounts[n].phase = "unmounted"
    /\ LET loaded == load3DMol(m)
           fresh == [NoMount EXCEPT !.phase = "mounted",
                                    !.promise = loaded.promise,
                                    !.molecule = molecule,
                                    !.resizeListener = TRUE]
           shown == moleculeEffect(fresh)
       IN  /\ promises' = loaded.promises
           /\ loaderPromise' = loaded.loaderPromise
           /\ scripts' = loaded.scripts
           /\ mounts' = [mounts EXCEPT ![m] = shown.c]
           /\ vcalls' = shown.calls
    /\ lastEvent' = [op |-> "mount", mount |-> m]
    /\ UNCHANGED <<loaderVariant, engineGlobal, unhandled>>
    /\ UNCHANGED <<now, outsideViewer>>

\* The reactions of a promise run every time the effect is run again.
reacted_Never(c) == FALSE

\* The effect has no dependencies, so it calls load3DMol once for a mount and
\* the reactions to its promise run once.
reacted(c) == c.continued

\* The reaction to the settled promise of load3DMol: .then(...).catch(...).
Continuation(m, constructorThrows, renderThrows) ==
    /\ mounts[m].phase # "none"
    /\ ~ reacted(mounts[m])
    /\ promises[mounts[m].promise].state \in {"resolved", "rejected"}
    /\ LET c == [mounts[m] EXCEPT !.continued = TRUE]
           p == promises[c.promise]
           then == IF p.state = "resolved"
                   THEN thenCallback(c, c.phase = "mounted",
                                     constructorThrows, renderThrows)
                   ELSE [c |-> c, calls |-> <<>>, thrown |-> p.reason]
           caught == IF then.thrown # ""
                     THEN catchCallback(then.c, then.thrown)
                     ELSE [c |-> then.c, unhandled |-> FALSE]
       IN  /\ mounts' = [mounts EXCEPT ![m] = caught.c]
           /\ vcalls' = then.calls
           /\ unhandled' = (unhandled \/ caught.unhandled)
    /\ lastEvent' = [op |-> "continuation", mount |-> m]
    /\ UNCHANGED <<loaderVariant, engineGlobal, loaderPromise, promises, scripts>>
    /\ UNCHANGED <<now, outsideViewer>>

\* The component is removed: React detaches containerRef at commit, before
\* the cleanups of the effects run.
Detach(m) ==
    /\ mounts[m].phase = "mounted"
    /\ mounts' = [mounts EXCEPT ![m].phase = "detached"]
    /\ vcalls' = <<>>
    /\ lastEvent' = [op |-> "detach", mount |-> m]
    /\ UNCHANGED <<loaderVariant, engineGlobal, loaderPromise, promises, scripts,
                   unhandled>>
    /\ UNCHANGED <<now, outsideViewer>>

\* The cleanups of the effects of a removed component.
Cleanup(m, clearThrows) ==
    /\ mounts[m].phase = "detached"
    /\ LET done == cleanup(mounts[m], clearThrows)
       IN  /\ mounts' = [mounts EXCEPT ![m] = done.c]
           /\ vcalls' = done.calls
           /\ unhandled' = (unhandled \/ done.unhandled)
    /\ lastEvent' = [op |-> "cleanup", mount |-> m]
    /\ UNCHANGED <<loaderVariant, engineGlobal, loaderPromise, promises, scripts>>
    /\ UNCHANGED <<now, outsideViewer>>

\* A handler of mount m ran and left `done`.
Handled(m, op, done) ==
    /\ mounts' = [mounts EXCEPT ![m] = done.c]
    /\ vcalls' = done.calls
    /\ lastEvent' = [op |-> op, mount |-> m]
    /\ UNCHANGED <<loaderVariant, engineGlobal, loaderPromise, promises, scripts,
                   unhandled>>
    /\ UNCHANGED <<now, outsideViewer>>

\* The window is resized while the listener of mount m is registered.
Resize(m) ==
    /\ mounts[m].resizeListener
    /\ Handled(m, "resize", handleResize(mounts[m]))

\* The host passes another molecule (or null) to the mounted component.
SupplyMolecule(m, molecule) ==
    /\ mounts[m].phase = "mounted"
    /\ molecule # mounts[m].molecule
    /\ Handled(m, "molecule", moleculeEffect([mounts[m] EXCEPT !.molecule = molecule]))

\* The host passes another title to the mounted component: title is a
\* dependency of the molecule effect.
SupplyTitle(m, title) ==
    /\ mounts[m].phase = "mounted"
    /\ title # mounts[m].title
    /\ Handled(m, "title", moleculeEffect([mounts[m] EXCEPT !.title = title]))

\* Buttons that are never disabled.
controlsEnabled_Always(c) == TRUE

\* The buttons of the controls are rendered with
\* disabled = status.loading || Boolean(status.error).
controlsEnabled(c) ==
    /\ ~ c.status.loading
    /\ c.status.error = ""

\* The titles the host passes ("" is none).
Titles == {"", "title"}

\* A click on a button of the controls: a disabled button runs no handler.
onClick(c, done) ==
    IF controlsEnabled(c) THEN done ELSE Result(c, <<>>)

\* The camera stays within MaxZoom zoom steps of the fitted view.
withinZoom(c) ==
    /\ c.view.scale.num <= ZOOM_STEP.num ^ MaxZoom
    /\ c.view.scale.den <= ZOOM_STEP.num ^ MaxZoom

\* The user clicks Reset View.
ResetView(m) ==
    /\ mounts[m].phase = "mounted"
    /\ Handled(m, "resetView", onClick(mounts[m], resetView(mounts[m])))

\* The user clicks Zoom In.
ZoomIn(m) ==
    /\ mounts[m].phase = "mounted"
    /\ LET done == onClick(mounts[m], zoomIn(mounts[m]))
       IN  /\ withinZoom(done.c)
           /\ Handled(m, "zoomIn", done)

\* The user clicks Zoom Out.
ZoomOut(m) ==
    /\ mounts[m].phase = "mounted"
    /\ LET done == onClick(mounts[m], zoomOut(mounts[m]))
       IN  /\ withinZoom(done.c)
           /\ Handled(m, "zoomOut", done)

\* A toast timer of mount m that is due fires.
ToastTimeout(m) ==
    \E t \in mounts[m].timers :
        /\ t <= now
        /\ Handled(m, "toastTimeout",
                   Result([toastTimeout(mounts[m]) EXCEPT !.timers = @ \ {t}], <<>>))

\* Time passes.
Tick ==
    /\ now + TICK <= MaxTicks * TICK
    /\ now' = now + TICK
    /\ vcalls' = <<>>
    /\ lastEvent' = [op |-> "tick", mount |-> 0]
    /\ UNCHANGED <<loaderVariant, engineGlobal, loaderPromise, promises, scripts,
                   mounts, unhandled>>
    /\ UNCHANGED outsideViewer

\* Which load3DMol the component is built with, and whether the page already
\* has the engine (a script tag of the host page).
InitViewer ==
    /\ loaderVariant \in {"utils", "inline"}
    /\ engineGlobal \in BOOLEAN
    /\ loaderPromise = 0
    /\ promises = [p \in 1..MaxMounts |-> NoPromise]
    /\ scripts = <<>>
    /\ mounts = [m \in 1..MaxMounts |-> NoMount]
    /\ vcalls = <<>>
    /\ unhandled = FALSE
    /\ lastEvent = [op |-> "none", mount |-> 0]
    /\ now = 0
    /\ SelectionIdle
    /\ AdjacencyIdle
    /\ StandaloneIdle

\* The component is mounted, removed and mounted again while the engine is
\* acquired; the host passes no molecule and nobody uses the controls.
NextLifecycle ==
    \/ \E m \in 1..MaxMounts : Mount(m, 0)
    \/ \E k \in 1..Len(scripts), exposes \in BOOLEAN : scriptLoad(k, exposes)
    \/ \E k \in 1..Len(scripts) : scriptError(k)
    \/ \E m \in 1..MaxMounts, constructorThrows \in BOOLEAN, renderThrows \in BOOLEAN :
         Continuation(m, constructorThrows, renderThrows)
    \/ \E m \in 1..MaxMounts : Detach(m)
    \/ \E m \in 1..MaxMounts, clearThrows \in BOOLEAN : Cleanup(m, clearThrows)
    \/ \E m \in 1..MaxMounts : Resize(m)

SpecLifecycle == InitViewer /\ [][NextLifecycle]_vars

\* One mount of the component with everything that can happen to it: the
\* host passes molecules, the user works the controls, timers fire.
NextViewer ==
    \/ \E molecule \in 0..NumMolecules : Mount(1, molecule)
    \/ \E k \in 1..Len(scripts), exposes \in BOOLEAN : scriptLoad(k, exposes)
    \/ \E k \in 1..Len(scripts) : scriptError(k)
    \/ \E constructorThrows \in BOOLEAN, renderThrows \in BOOLEAN :
         Continuation(1, constructorThrows, renderThrows)
    \/ Detach(1)
    \/ \E clearThrows \in BOOLEAN : Cleanup(1, clearThrows)
    \/ Resize(1)
    \/ \E molecule \in 0..NumMolecules : SupplyMolecule(1, molecule)
    \/ ResetView(1)
    \/ ZoomIn(1)
    \/ ZoomOut(1)
    \/ ToastTimeout(1)
    \/ \E title \in Titles : SupplyTitle(1, title)
    \/ Tick

SpecViewer == InitViewer /\ [][NextViewer]_vars

\* What the browser does by itself sooner or later: a script element fires
\* load or error, a settled promise runs its reactions, a timer that is due
\* fires, time passes.  The host and the user are under no obligation.
FairViewer ==
    /\ WF_vars(\E k \in 1..Len(scripts) :
                  scriptError(k) \/ \E exposes \in BOOLEAN : scriptLoad(k, exposes))
    /\ WF_vars(\E constructorThrows \in BOOLEAN, renderThrows \in BOOLEAN :
                  Continuation(1, constructorThrows, renderThrows))
    /\ WF_vars(ToastTimeout(1))
    /\ WF_vars(Tick)

SpecViewerFair == InitViewer /\ [][NextViewer]_vars /\ FairViewer

----------------------------------------------------------------------------
(* initialiseMoleculeViewer of the stand-alone page *)

LIBRARY_UNAVAILABLE == "3Dmol.js library unavailable."

LOADING_SAMPLE == "Loading sample molecule"

SAMPLE_LOADED == "Sample molecule loaded"

SAMPLE_FAILED == "Unable to load sample molecule."

INITIALISE_FAILED == "Unable to initialise molecule viewer."

\* Where the try block of initialiseMoleculeViewer may throw.
ThrowSites == {"none", "createViewer", "render"}

\* Writing text to #viewer-status and showing it, if the page has the element.
showStatus(status, text) ==
    IF page.viewerStatusEl THEN [text |-> text, hidden |-> FALSE] ELSE status

\* handleViewerResize that renders before it resizes.
handleViewerResize_RenderFirst(viewer) ==
    IF viewer THEN <<"render", "resize">> ELSE <<>>

\* handleViewerResize: the viewer calls it makes.
handleViewerResize(viewer) ==
    IF viewer THEN <<"resize", "render">> ELSE <<>>

\* initialiseMoleculeViewer; throws names the call of the try block that
\* throws, if any.
initialiseMoleculeViewer(throws) ==
    /\ ~ standalone.called
    /\ IF ~ page.viewerContainer
       THEN /\ standCalls' = <<"console.warn">>
            /\ standalone' = [standalone EXCEPT !.called = TRUE]
            /\ UNCHANGED <<moleculeViewer, viewerResizeObserver,
                           hasBoundViewerResizeListener, viewerStatus>>
       ELSE IF moleculeViewer
       THEN /\ standCalls' = handleViewerResize(moleculeViewer)
            /\ standalone' = [standalone EXCEPT !.called = TRUE]
            /\ UNCHANGED <<moleculeViewer, viewerResizeObserver,
                           hasBoundViewerResizeListener, viewerStatus>>
       ELSE IF ~ page.engine
       THEN /\ standCalls' = <<"console.error">>
            /\ viewerStatus' = showStatus(viewerStatus, LIBRARY_UNAVAILABLE)
            /\ standalone' = [standalone EXCEPT !.called = TRUE]
            /\ UNCHANGED <<moleculeViewer, viewerResizeObserver,
                           hasBoundViewerResizeListener>>
       ELSE IF throws = "createViewer"
       THEN /\ standCalls' = <<"createViewer", "console.error">>
            /\ viewerStatus' = showStatus(showStatus(viewerStatus, LOADING_SAMPLE),
                                          INITIALISE_FAILED)
            /\ standalone' = [standalone EXCEPT !.called = TRUE]
            /\ UNCHANGED <<moleculeViewer, viewerResizeObserver,
                           hasBoundViewerResizeListener>>
       ELSE /\ moleculeViewer' = TRUE
            /\ hasBoundViewerResizeListener' = TRUE
            /\ viewerResizeObserver' = (page.ResizeObserver \/ viewerResizeObserver)
            /\ IF throws = "render"
               THEN /\ standCalls' = <<"createViewer", "resize", "render", "console.error">>
                    /\ viewerStatus' = showStatus(showStatus(viewerStatus, LOADING_SAMPLE),
                                                  INITIALISE_FAILED)
                    /\ standalone' = [standalone EXCEPT !.called = TRUE]
               ELSE /\ standCalls' = <<"createViewer", "resize", "render", "download">>
                    /\ viewerStatus' = showStatus(viewerStatus, LOADING_SAMPLE)
                    /\ standalone' = [standalone EXCEPT !.called = TRUE,
                                                        !.download = "pending"]
    /\ standOp' = "initialiseMoleculeViewer"
    /\ UNCHANGED page
    /\ UNCHANGED outsideStandalone

\* A handler of the stand-alone page that calls handleViewerResize only.
Resized(op) ==
    /\ standCalls' = handleViewerResize(moleculeViewer)
    /\ standOp' = op
    /\ UNCHANGED <<page, moleculeViewer, viewerResizeObserver,
                   hasBoundViewerResizeListener, viewerStatus, standalone>>
    /\ UNCHANGED outsideStandalone

\* The resize event of the window, once the listener is bound.
WindowResize ==
    /\ hasBoundViewerResizeListener
    /\ Resized("windowResize")

\* The callback of the ResizeObserver on the container.
ObserverResize ==
    /\ viewerResizeObserver
    /\ Resized("observerResize")

\* The success callback of mol.download.
DownloadLoaded ==
    /\ standalone.download = "pending"
    /\ standCalls' = <<"setStyle", "addStyle", "zoomTo", "render", "zoom", "spin">>
    /\ viewerStatus' = IF page.viewerStatusEl
                       THEN [viewerStatus EXCEPT !.text = SAMPLE_LOADED]
                       ELSE viewerStatus
    /\ standalone' = [standalone EXCEPT !.download = "loaded",
                                        !.hideTimer = page.viewerStatusEl]
    /\ standOp' = "downloadLoaded"
    /\ UNCHANGED <<page, moleculeViewer, viewerResizeObserver,
                   hasBoundViewerResizeListener>>
    /\ UNCHANGED outsideStandalone

\* The error callback of mol.download.
DownloadFailed ==
    /\ standalone.download = "pending"
    /\ standCalls' = <<"console.error">>
    /\ viewerStatus' = showStatus(viewerStatus, SAMPLE_FAILED)
    /\ standalone' = [standalone EXCEPT !.download = "failed"]
    /\ standOp' = "downloadFailed"
    /\ UNCHANGED <<page, moleculeViewer, viewerResizeObserver,
                   hasBoundViewerResizeListener>>
    /\ UNCHANGED outsideStandalone

\* The timer that hides #viewer-status after the sample was loaded.
HideStatus ==
    /\ standalone.hideTimer
    /\ standCalls' = <<>>
    /\ viewerStatus' = [viewerStatus EXCEPT !.hidden = TRUE]
    /\ standalone' = [standalone EXCEPT !.hideTimer = FALSE]
    /\ standOp' = "hideStatus"
    /\ UNCHANGED <<page, moleculeViewer, viewerResizeObserver,
                   hasBoundViewerResizeListener>>
    /\ UNCHANGED outsideStandalone

\* The page as it is when the script starts: what it offers is not in the
\* script's hands.
InitStandalone ==
    /\ page \in [viewerContainer : BOOLEAN, viewerStatusEl : BOOLEAN,
                 engine : BOOLEAN, ResizeObserver : BOOLEAN]
    /\ moleculeViewer = FALSE
    /\ viewerResizeObserver = FALSE
    /\ hasBoundViewerResizeListener = FALSE
    /\ \E hidden \in BOOLEAN : viewerStatus = MarkupStatus(hidden)
    /\ standalone = NotCalled
    /\ standCalls = <<>>
    /\ standOp = "none"
    /\ SelectionIdle
    /\ AdjacencyIdle
    /\ ViewerIdle

NextStandalone ==
    \/ \E throws \in ThrowSites : initialiseMoleculeViewer(throws)
    \/ WindowResize
    \/ ObserverResize
    \/ DownloadLoaded
    \/ DownloadFailed
    \/ HideStatus

SpecStandalone == InitStandalone /\ [][NextStandalone]_vars

\* Both pages side by side, each with its resize handler: the stand-alone
\* page as the script finds it, and one mount of the component.
InitResize ==
    /\ page \in [viewerContainer : BOOLEAN, viewerStatusEl : BOOLEAN,
                 engine : BOOLEAN, ResizeObserver : BOOLEAN]
    /\ moleculeViewer = FALSE
    /\ viewerResizeObserver = FALSE
    /\ hasBoundViewerResizeListener = FALSE
    /\ viewerStatus = MarkupStatus(TRUE)
    /\ standalone = NotCalled
    /\ standCalls = <<>>
    /\ standOp = "none"
    /\ loaderVariant \in {"utils", "inline"}
    /\ engineGlobal \in BOOLEAN
    /\ loaderPromise = 0
    /\ promises = [p \in 1..MaxMounts |-> NoPromise]
    /\ scripts = <<>>
    /\ mounts = [m \in 1..MaxMounts |-> NoMount]
    /\ vcalls = <<>>
    /\ unhandled = FALSE
    /\ lastEvent = [op |-> "none", mount |-> 0]
    /\ now = 0
    /\ SelectionIdle
    /\ AdjacencyIdle

\* The events that lead to a resize handler and the resize events themselves.
NextResize ==
    \/ \E throws \in ThrowSites : initialiseMoleculeViewer(throws)
    \/ WindowResize
    \/ ObserverResize
    \/ Mount(1, 0)
    \/ \E k \in 1..Len(scripts), exposes \in BOOLEAN : scriptLoad(k, exposes)
    \/ \E k \in 1..Len(scripts) : scriptError(k)
    \/ \E constructorThrows \in BOOLEAN, renderThrows \in BOOLEAN :
         Continuation(1, constructorThrows, renderThrows)
    \/ Detach(1)
    \/ \E clearThrows \in BOOLEAN : Cleanup(1, clearThrows)
    \/ Resize(1)

SpecResize == InitResize /\ [][NextResize]_vars

----------------------------------------------------------------------------
(* Properties *)

SerialsOf(sel) == [i \in 1..Len(sel) |-> sel[i].serial]

CoordinatesOf(a) == [x |-> a.x, y |-> a.y, z |-> a.z]

Occurrences(seq, e) == Cardinality({i \in 1..Len(seq) : seq[i] = e})

Contains(seq, e) == \E i \in 1..Len(seq) : seq[i] = e

\* The click delivered an atom that has a serial.
HasIdentity(click) == click # <<>> /\ "serial" \in DOMAIN click[1]

\* The last handler replaced the measurement primitive of a full selection:
\* it removed one cylinder and added another.
Evicted ==
    /\ lastOp.op = "select"
    /\ Contains(trace, "removeShape")
    /\ Contains(trace, "addCylinder")

\* C1: after any sequence of selectAtom and clear operations the selection
\* holds at most 2 snapshots, and no two of them have the same serial.
C1_AtMostTwoDistinct ==
    /\ Len(selectedAtoms) <= 2
    /\ \A i, j \in 1..Len(selectedAtoms) :
           i # j => selectedAtoms[i].serial # selectedAtoms[j].serial

C1_Witness ==
    /\ Evicted
    /\ Len(selectedAtoms) = 2

\* C2: FIFO eviction.  A click on an atom whose serial differs from both
\* selected serials drops the snapshot of slot 0, moves the snapshot of
\* slot 1 to slot 0 and puts the clicked atom in slot 1.
C2_FifoEviction ==
    [][ ( /\ lastOp'.op = "select"
          /\ HasIdentity(lastOp'.click)
          /\ Len(selectedAtoms) = 2
          /\ \A i \in 1..2 : selectedAtoms[i].serial # lastOp'.click[1].serial )
        => ( /\ Len(selectedAtoms') = 2
             /\ selectedAtoms'[1] = selectedAtoms[2]
             /\ selectedAtoms'[2].serial = lastOp'.click[1].serial
             /\ CoordinatesOf(selectedAtoms'[2]) = CoordinatesOf(lastOp'.click[1]) )
      ]_vars

\* A, B, C = serials 1, 2, 3: the state after the third click.
C2_Witness ==
    /\ Evicted
    /\ lastOp.click[1].serial = 3
    /\ SerialsOf(selectedAtoms) = <<2, 3>>

\* C3: toggle.  A click on an atom whose serial is already selected removes
\* exactly that snapshot and adds nothing; the other snapshot, if there is
\* one, stays and is the only one left.
C3_Toggle ==
    [][ \A k \in 1..Len(selectedAtoms) :
          ( /\ lastOp'.op = "select"
            /\ HasIdentity(lastOp'.click)
            /\ selectedAtoms[k].serial = lastOp'.click[1].serial )
          => ( /\ Len(selectedAtoms') = Len(selectedAtoms) - 1
               /\ \A i \in 1..Len(selectedAtoms) :
                      i # k => /\ Len(selectedAtoms') = 1
                               /\ selectedAtoms'[1] = selectedAtoms[i] )
      ]_vars

\* TwoSelected(A,B) with B clicked: A alone is left.
C3_Witness ==
    /\ lastOp.op = "select"
    /\ HasIdentity(lastOp.click)
    /\ Contains(trace, "removeShape")
    /\ Len(selectedAtoms) = 1
    /\ selectedAtoms[1].serial < lastOp.click[1].serial

\* C4: after every handler a measurement primitive exists in the viewer
\* exactly when two atoms are selected, it is the one measurementShape
\* refers to, it joins the coordinates of the two snapshots in slot order,
\* and the viewer never held more than one primitive, not even inside the
\* handler.
C4_MeasurementPrimitive ==
    /\ Cardinality(viewerShapes) = (IF Len(selectedAtoms) = 2 THEN 1 ELSE 0)
    /\ (measurementShape # 0) <=> (Len(selectedAtoms) = 2)
    /\ \A sh \in viewerShapes :
           /\ sh.handle = measurementShape
           /\ sh.start = CoordinatesOf(selectedAtoms[1])
           /\ sh.end = CoordinatesOf(selectedAtoms[2])
    /\ shapesPeak <= 1

C4_Witness ==
    /\ Evicted
    /\ Cardinality(viewerShapes) = 1
    /\ shapesPeak = 1

\* C5: in every emitted selection-change record the distance is non-null
\* exactly when the record carries two atoms.
C5_DistanceIffTwo ==
    \A i \in 1..Len(emitted) :
        (~ emitted[i].distance.null) <=> (Len(emitted[i].atoms) = 2)

C5_Witness ==
    /\ Len(emitted) = 1
    /\ Len(emitted[1].atoms) = 2
    /\ ~ emitted[1].distance.null
    /\ lastOp.op = "select"

\* dx*dx + dy*dy + dz*dz of two snapshots.
SquaredDistance(a, b) ==
    (a.x - b.x) * (a.x - b.x) + (a.y - b.y) * (a.y - b.y)
        + (a.z - b.z) * (a.z - b.z)

\* d is the square root of sq at the resolution of the model.
IsRootOf(d, sq) == d >= 0 /\ d * d <= sq /\ sq < (d + 1) * (d + 1)

\* C6: with two snapshots the reported distance is their Euclidean 3-D
\* distance (its square is dx*dx + dy*dy + dz*dz, to the resolution of the
\* model), it is the same with the two snapshots swapped, (0,0,0) and
\* (1,1,1) give 1.732 and serials 1 and 4 of the sample give 2.792.
C6_EuclideanDistance ==
    (Len(selectedAtoms) = 2 /\ Len(emitted) = 1) =>
        LET a == selectedAtoms[1]
            b == selectedAtoms[2]
            d == emitted[1].distance
        IN  /\ ~ d.null
            /\ IsRootOf(d.value, SquaredDistance(a, b))
            /\ d.value = computeDistance(b, a)
            /\ ( CoordinatesOf(a) = [x |-> 0, y |-> 0, z |-> 0]
                 /\ CoordinatesOf(b) = [x |-> 1000, y |-> 1000, z |-> 1000] )
               => d.value = 1732
            /\ ( a = copyAtom(ModelAtom(1)) /\ b = copyAtom(ModelAtom(4)) )
               => d.value = 2792

C6_Witness ==
    /\ lastOp.op = "updateUI"
    /\ CoordinatesOf(selectedAtoms[1]) = [x |-> 0, y |-> 0, z |-> 0]
    /\ CoordinatesOf(selectedAtoms[2]) = [x |-> 1000, y |-> 1000, z |-> 1000]
    /\ emitted = <<emitSelectionChange(selectedAtoms, Number(1732))>>

\* C7: every selectAtom call with an atom that has a serial emits exactly
\* one selection-change record; its atoms are the selection after the
\* transition in slot order and its distance is the distance after the
\* transition, also when the size of the selection did not change.
C7_OneRecordPerSelect ==
    (lastOp.op = "select" /\ HasIdentity(lastOp.click)) =>
        /\ Len(emitted) = 1
        /\ Occurrences(trace, "dispatchEvent") = 1
        /\ Len(emitted[1].atoms) = Len(selectedAtoms)
        /\ \A i \in 1..Len(selectedAtoms) :
               /\ emitted[1].atoms[i].index = i - 1
               /\ emitted[1].atoms[i].serial = selectedAtoms[i].serial
               /\ emitted[1].atoms[i].coordinates = CoordinatesOf(selectedAtoms[i])
        /\ IF Len(selectedAtoms) = 2
           THEN /\ ~ emitted[1].distance.null
                /\ IsRootOf(emitted[1].distance.value,
                            SquaredDistance(selectedAtoms[1], selectedAtoms[2]))
           ELSE emitted[1].distance.null

C7_Witness ==
    /\ Evicted
    /\ Len(emitted) = 1
    /\ SerialsOf(emitted[1].atoms) = <<5, 9>>

\* C8: a click that delivers no atom, or an atom without a serial, is
\* ignored in every state: selection, measurement primitive, styles and
\* read-outs are unchanged, and the handler makes no viewer call (so no
\* render) and emits no record.
C8_IgnoredClick ==
    [][ (lastOp'.op = "select" /\ ~ HasIdentity(lastOp'.click))
        => ( /\ UNCHANGED <<selectedAtoms, measurementShape, viewerShapes,
                            atomStyles, ui>>
             /\ trace' = <<>>
             /\ emitted' = <<>> )
      ]_vars

C8_Witness ==
    /\ lastOp.op = "select"
    /\ lastOp.click # <<>>
    /\ ~ HasIdentity(lastOp.click)
    /\ Len(selectedAtoms) = 2
    /\ emitted = <<>>

\* C9: clear() with one or two atoms selected ends in Empty with the side
\* effects of a removal: every atom has the base style, the measurement
\* primitive (if any) is removed, there is one render, and one record is
\* emitted, with no atoms and a null distance.
C9_ClearNonEmpty ==
    [][ (lastOp'.op = "clear" /\ Len(selectedAtoms) >= 1)
        => ( /\ selectedAtoms' = <<>>
             /\ \A s \in Serials : atomStyles'[s] = BASE_STYLE
             /\ viewerShapes' = {}
             /\ measurementShape' = 0
             /\ trace' = <<"setStyleAll">>
                         \o (IF Len(selectedAtoms) = 2 THEN <<"removeShape">> ELSE <<>>)
                         \o <<"render", "dispatchEvent">>
             /\ Len(emitted') = 1
             /\ emitted'[1].atoms = <<>>
             /\ emitted'[1].distance.null )
      ]_vars

C9_Witness ==
    /\ lastOp.op = "clear"
    /\ Contains(trace, "removeShape")
    /\ selectedAtoms = <<>>
    /\ Len(emitted) = 1

\* C10: clear() on the empty selection changes nothing (selection,
\* measurement primitive, styles, read-outs), calls nothing and emits
\* nothing; hence a clear() right after a clear() leaves the state of the
\* first.
C10_ClearEmpty ==
    [][ /\ (lastOp'.op = "clear" /\ Len(selectedAtoms) = 0)
           => ( /\ UNCHANGED <<selectedAtoms, measurementShape, viewerShapes,
                               atomStyles, ui>>
                /\ trace' = <<>>
                /\ emitted' = <<>> )
        /\ (lastOp.op = "clear" /\ lastOp'.op = "clear")
           => UNCHANGED <<selectedAtoms, measurementShape, viewerShapes,
                          atomStyles, ui>>
      ]_vars

C10_Witness ==
    /\ lastOp.op = "clear"
    /\ selectedAtoms = <<>>
    /\ trace = <<>>
    /\ emitted = <<>>

KnownIndices(molecule) ==
    {molecule.atoms[k].index : k \in 1..Len(molecule.atoms)}

\* Both endpoints of the bond are atom indices of the molecule.
ValidBond(molecule, bond) ==
    /\ bond.atom1 \in KnownIndices(molecule)
    /\ bond.atom2 \in KnownIndices(molecule)

\* The output record of the atom with the given index.
RenderAtomOf(out, index) ==
    out[CHOOSE k \in 1..Len(out) : out[k].index = index]

\* How many entries of atom i's adjacency record name neighbour j with
\* order o.
EntryCount(out, i, j, o) ==
    LET rec == RenderAtomOf(out, i)
    IN  Cardinality({p \in 1..Len(rec.bonds) :
                         rec.bonds[p] = j /\ rec.bondOrder[p] = o})

\* The orders that occur anywhere in the output.
OrdersIn(out) ==
    UNION {{out[k].bondOrder[p] : p \in 1..Len(out[k].bondOrder)} : k \in 1..Len(out)}

\* build3DMolAtoms has returned for a molecule.
Built == adjDone /\ adjInput # <<>>

\* C12: adjacency symmetry.  For every bond (i, j) whose endpoints are both
\* known atom indices, the output lists j among the neighbours of i and i
\* among the neighbours of j with one and the same order; and every entry
\* (j, order) at i has its counterpart (i, order) at j.
C12_AdjacencySymmetry ==
    Built =>
        LET molecule == adjInput[1]
            bonds    == bondsOf(molecule)
        IN  /\ \A k \in 1..Len(bonds) :
                   ValidBond(molecule, bonds[k]) =>
                       \E o \in OrdersIn(adjOutput) :
                           /\ EntryCount(adjOutput, bonds[k].atom1, bonds[k].atom2, o) >= 1
                           /\ EntryCount(adjOutput, bonds[k].atom2, bonds[k].atom1, o) >= 1
            /\ \A i, j \in KnownIndices(molecule) :
                   \A o \in OrdersIn(adjOutput) :
                       EntryCount(adjOutput, i, j, o) = EntryCount(adjOutput, j, i, o)

C12_Witness ==
    /\ Built
    /\ bondsOf(adjInput[1]) = <<[atom1 |-> 0, atom2 |-> 1, order |-> 2]>>
    /\ RenderAtomOf(adjOutput, 0).bonds = <<1>>
    /\ RenderAtomOf(adjOutput, 1).bonds = <<0>>

\* The molecule without its bonds that have an unknown endpoint.
WithoutInvalidBonds(molecule) ==
    [atoms |-> molecule.atoms,
     bonds |-> SelectSeq(bondsOf(molecule), LAMBDA b : ValidBond(molecule, b))]

\* C13: a bond with an endpoint that is not a known atom index adds no
\* entry to any record, also not to the record of its valid endpoint: no
\* entry names an unknown index, every record has one entry per valid bond
\* end at its atom, and the output is the output for the molecule without
\* the invalid bonds.
C13_InvalidBondIgnored ==
    Built =>
        LET molecule == adjInput[1]
            bonds    == bondsOf(molecule)
        IN  /\ \A k \in 1..Len(adjOutput) :
                   /\ \A p \in 1..Len(adjOutput[k].bonds) :
                          adjOutput[k].bonds[p] \in KnownIndices(molecule)
                   /\ Len(adjOutput[k].bonds) =
                          Cardinality({b \in 1..Len(bonds) :
                              ValidBond(molecule, bonds[b])
                              /\ bonds[b].atom1 = adjOutput[k].index})
                          + Cardinality({b \in 1..Len(bonds) :
                              ValidBond(molecule, bonds[b])
                              /\ bonds[b].atom2 = adjOutput[k].index})
            /\ adjOutput = build3DMolAtoms(<<WithoutInvalidBonds(molecule)>>)

\* A bond from atom 0 to the unknown index 3, followed by a valid bond.
C13_Witness ==
    /\ Built
    /\ Len(bondsOf(adjInput[1])) = 2
    /\ bondsOf(adjInput[1])[1] = [atom1 |-> 0, atom2 |-> 3, order |-> 2]
    /\ ValidBond(adjInput[1], bondsOf(adjInput[1])[2])
    /\ bondsOf(adjInput[1])[2].atom1 # bondsOf(adjInput[1])[2].atom2
    /\ Len(RenderAtomOf(adjOutput, 0).bonds) = 1

\* max(1, order or 1) spelled out: the order if there is one and it is at
\* least 1, else 1.
ExpectedOrder(bond) ==
    IF "order" \in DOMAIN bond
    THEN (IF bond.order >= 1 THEN bond.order ELSE 1)
    ELSE 1

\* The orders atom i's record must hold: one per end of a valid bond at i,
\* in bond input order.
RECURSIVE ExpectedOrders(_, _, _)
ExpectedOrders(molecule, i, k) ==
    IF k = 0 THEN <<>>
    ELSE LET bond == bondsOf(molecule)[k]
             o    == ExpectedOrder(bond)
         IN  ExpectedOrders(molecule, i, k - 1)
             \o (IF ValidBond(molecule, bond) /\ bond.atom1 = i THEN <<o>> ELSE <<>>)
             \o (IF ValidBond(molecule, bond) /\ bond.atom2 = i THEN <<o>> ELSE <<>>)

\* C14: every recorded bond order is max(1, bond.order or 1): a missing,
\* zero or negative order is recorded as 1, so every entry of every
\* bondOrder list is at least 1.
C14_OrderClamped ==
    Built =>
        \A k \in 1..Len(adjOutput) :
            /\ \A p \in 1..Len(adjOutput[k].bondOrder) : adjOutput[k].bondOrder[p] >= 1
            /\ adjOutput[k].bondOrder =
                   ExpectedOrders(adjInput[1], adjOutput[k].index,
                                  Len(bondsOf(adjInput[1])))

\* A negative order and a missing order, both recorded as 1.
C14_Witness ==
    /\ Built
    /\ bondsOf(adjInput[1]) = <<[atom1 |-> 0, atom2 |-> 1, order |-> -1],
                                [atom1 |-> 1, atom2 |-> 0]>>
    /\ RenderAtomOf(adjOutput, 0).bondOrder = <<1, 1>>

\* The scripts load3DMol inserted that are still loading.
LoadsInFlight == {k \in 1..Len(scripts) : scripts[k].state = "loading"}

\* C15: while an acquisition of the engine is pending, a further call of
\* load3DMol attaches to it, so at most one inserted script is loading at any
\* time, however many callers wait.
C15_SingleFlight ==
    Cardinality(LoadsInFlight) <= 1

\* The step is the call of load3DMol by mount m (its initialisation effect).
Initialized(m) ==
    /\ mounts[m].phase = "none"
    /\ mounts'[m].phase = "mounted"

\* The engine has been resolved: a promise of load3DMol is resolved.
EngineResolved == \E p \in 1..MaxMounts : promises[p].state = "resolved"

\* C16: once the engine has been resolved, every later call of load3DMol
\* returns a promise that is already resolved and inserts no script.
C16_CachedEngineReused ==
    [][\A m \in 1..MaxMounts :
          (Initialized(m) /\ EngineResolved) =>
              /\ scripts' = scripts
              /\ promises'[mounts'[m].promise].state = "resolved"]_vars

\* Mount 2 called load3DMol after the script of mount 1 had resolved the
\* engine: its promise is resolved and the page still has one script.
C16_Witness ==
    /\ lastEvent = [op |-> "mount", mount |-> 2]
    /\ promises[mounts[1].promise].state = "resolved"
    /\ mounts[2].promise # mounts[1].promise
    /\ promises[mounts[2].promise].state = "resolved"
    /\ Len(scripts) = 1
    /\ scripts[1].state = "loaded"

\* The step is the reaction of mount m to its settled promise.
Continued(m) ==
    /\ ~ mounts[m].continued
    /\ mounts'[m].continued

\* C17: when the cleanup of a mount ran before the promise of load3DMol was
\* reacted to, the reaction (to a resolved or a rejected promise) constructs
\* no viewer, leaves the viewer reference empty and the status as it was, and
\* raises nothing.
C17_CancelledAcquisition ==
    [][\A m \in 1..MaxMounts :
          (Continued(m) /\ mounts[m].cancelled) =>
              /\ mounts'[m].constructed = 0
              /\ ~ mounts'[m].viewerRef
              /\ mounts'[m].status = mounts[m].status
              /\ vcalls' = <<>>
              /\ unhandled' = unhandled]_vars

\* Mount 1 was torn down while its script was loading; the script then
\* failed and the reaction left the mount loading, without a viewer.
C17_Witness ==
    /\ lastEvent = [op |-> "continuation", mount |-> 1]
    /\ mounts[1].phase = "unmounted"
    /\ mounts[1].cancelled
    /\ mounts[1].continued
    /\ promises[mounts[1].promise] = [state |-> "rejected", reason |-> LOAD_FAILED]
    /\ mounts[1].status = [loading |-> TRUE, error |-> ""]
    /\ mounts[1].constructed = 0
    /\ ~ mounts[1].viewerRef
    /\ ~ unhandled

\* The #viewer-status element shows an error.
StandaloneError ==
    /\ ~ viewerStatus.hidden
    /\ viewerStatus.text \in {LIBRARY_UNAVAILABLE, INITIALISE_FAILED, SAMPLE_FAILED}

\* C18: if the container is missing when initialiseMoleculeViewer runs, no
\* viewer is constructed and the status read-out of the page shows an error.
C18_MissingContainerIsError ==
    (standalone.called /\ ~ page.viewerContainer /\ page.viewerStatusEl) =>
        (~ moleculeViewer /\ StandaloneError)

\* The reaction of mount m met a failed acquisition or a throwing
\* constructor.
AcquisitionOrConstructionFailed(m) ==
    \/ promises[mounts[m].promise].state = "rejected"
    \/ vcalls' = <<"GlViewer">>

\* C19: in a mount that was not torn down, a rejected promise of load3DMol
\* and a throwing GlViewer constructor are caught: the status becomes an
\* error with the message of the failure, and nothing escapes the handler.
C19_FailureCaught ==
    [][\A m \in 1..MaxMounts :
          (Continued(m) /\ ~ mounts[m].cancelled /\ AcquisitionOrConstructionFailed(m)) =>
              /\ ~ mounts'[m].status.loading
              /\ mounts'[m].status.error \in {LOAD_FAILED, NOT_EXPOSED, CONSTRUCTOR_FAILED}
              /\ mounts'[m].constructed = 0
              /\ ~ unhandled']_vars

\* The constructor threw in a live mount: the status is the error.
C19_Witness ==
    /\ lastEvent = [op |-> "continuation", mount |-> 1]
    /\ mounts[1].phase = "mounted"
    /\ vcalls = <<"GlViewer">>
    /\ mounts[1].status = [loading |-> FALSE, error |-> CONSTRUCTOR_FAILED]
    /\ ~ mounts[1].viewerRef
    /\ ~ unhandled

\* The lifecycle of mount m is in Error.
InError(m) == mounts[m].status.error # ""

\* C20: once a mount is in Error, no step that is not a new mount changes
\* its status, constructs a viewer for it, or starts an acquisition (a new
\* promise of load3DMol or a new script).
C20_ErrorTerminal ==
    [][\A m \in 1..MaxMounts :
          (InError(m) /\ lastEvent'.op # "mount") =>
              /\ mounts'[m].status = mounts[m].status
              /\ mounts'[m].constructed = mounts[m].constructed
              /\ Len(scripts') = Len(scripts)
              /\ \A p \in 1..MaxMounts :
                    promises[p].state = "none" => promises'[p].state = "none"]_vars

\* A resize reached the viewer of a mount in Error (its first render had
\* thrown), after a molecule was supplied and its toast timer is pending.
C20_Witness ==
    /\ InError(1)
    /\ lastEvent = [op |-> "resize", mount |-> 1]
    /\ vcalls = <<"resize", "render">>
    /\ mounts[1].timers # {}
    /\ mounts[1].molecule # 0

\* The lifecycle of the mount is Ready.
Ready(c) == ~ c.status.loading /\ c.status.error = ""

\* The handlers that call the viewer once it exists.
ViewerHandlers == {"resize", "molecule", "title", "zoomIn", "zoomOut", "resetView"}

\* C21: a resize, a molecule or title change or a camera command calls the
\* viewer only when the lifecycle of the mount is Ready.
C21_ReadyGating ==
    \A m \in 1..MaxMounts :
        (lastEvent.mount = m /\ lastEvent.op \in ViewerHandlers /\ vcalls # <<>>) =>
            Ready(mounts[m])

\* The mounts that hold a viewer after the step.
Holders == {m \in 1..MaxMounts : mounts'[m].viewerRef}

\* C22: a mount constructs at most one viewer, never while it holds one, and
\* at most one mount holds a viewer.
C22_OneViewerPerMount ==
    [][/\ \A m \in 1..MaxMounts :
            /\ mounts'[m].constructed <= 1
            /\ mounts'[m].constructed > mounts[m].constructed => ~ mounts[m].viewerRef
       /\ Cardinality(Holders) <= 1]_vars

\* The second mount holds the one viewer it constructed and a resize reached
\* it; the first mount had constructed one as well and was torn down.
C22_Witness ==
    /\ mounts[1].phase = "unmounted"
    /\ mounts[1].constructed = 1
    /\ ~ mounts[1].viewerRef
    /\ mounts[2].constructed = 1
    /\ mounts[2].viewerRef
    /\ lastEvent = [op |-> "resize", mount |-> 2]
    /\ vcalls = <<"resize", "render">>

\* The step is the cleanup of mount m.
TornDown(m) ==
    /\ mounts[m].phase = "detached"
    /\ mounts'[m].phase = "unmounted"

\* C23: the cleanup of a mount that holds a viewer calls viewer.clear once
\* and, whether or not the call throws, ends with the viewer reference
\* cleared and nothing escaping.
C23_TeardownReleases ==
    [][\A m \in 1..MaxMounts :
          (TornDown(m) /\ mounts[m].viewerRef) =>
              /\ vcalls' \in {<<"clear">>, <<"clear", "catch">>}
              /\ ~ mounts'[m].viewerRef
              /\ unhandled' = unhandled]_vars

\* viewer.clear threw in the cleanup of mount 1, which held a viewer.
C23_Witness ==
    /\ lastEvent = [op |-> "cleanup", mount |-> 1]
    /\ vcalls = <<"clear", "catch">>
    /\ mounts[1].constructed = 1
    /\ mounts[1].phase = "unmounted"
    /\ ~ mounts[1].viewerRef
    /\ ~ unhandled

\* The mounts whose resize listener is registered on the window.
ResizeListeners == {m \in 1..MaxMounts : mounts[m].resizeListener}

\* C24: at most one resize listener is registered at any time, a rendered
\* component has its listener, and a torn down one has none.
C24_ResizeListenerOnce ==
    /\ Cardinality(ResizeListeners) <= 1
    /\ \A m \in 1..MaxMounts :
          /\ mounts[m].phase \in {"mounted", "detached"} => mounts[m].resizeListener
          /\ mounts[m].phase = "unmounted" => ~ mounts[m].resizeListener

\* The component was mounted a second time: the listener of the first mount
\* is gone, that of the second is the only one.
C24_Witness ==
    /\ mounts[1].phase = "unmounted"
    /\ mounts[2].phase = "mounted"
    /\ ResizeListeners = {2}
    /\ lastEvent = [op |-> "mount", mount |-> 2]

\* C25: a mount has at most one toast timer pending, the one toastTimerRef
\* holds.
C25_OnePendingTimer ==
    \A m \in 1..MaxMounts :
        /\ Cardinality(mounts[m].timers) <= 1
        /\ mounts[m].timers # {} => mounts[m].timers = {mounts[m].toastTimerRef}

\* Zoom In was clicked before the toast of the loaded molecule could expire:
\* one timer is pending, that of the click.
C25_Witness ==
    /\ lastEvent = [op |-> "zoomIn", mount |-> 1]
    /\ mounts[1].models # 0
    /\ now < TOAST_DELAY
    /\ mounts[1].toast = "Zoomed in"
    /\ mounts[1].timers = {now + TOAST_DELAY}

\* The message a handler shows.
MessageOf(op) ==
    CASE op = "resetView" -> "View reset"
      [] op = "zoomIn"    -> "Zoomed in"
      [] op = "zoomOut"   -> "Zoomed out"
      [] OTHER            -> "Loaded molecule"

\* The step is a handler of mount m that calls showToast.
Shown(m) ==
    /\ lastEvent'.mount = m
    /\ lastEvent'.op \in {"molecule", "title", "resetView", "zoomIn", "zoomOut"}
    /\ vcalls' # <<>>

\* C26: a toast shown while another is visible replaces it at once, the
\* only timer left is the one due TOAST_DELAY after this call, and a visible
\* toast is hidden only by the timer of the call that showed it, when due.
C26_ToastCoalescing ==
    [][\A m \in 1..MaxMounts :
          /\ Shown(m) =>
                /\ mounts'[m].toast = MessageOf(lastEvent'.op)
                /\ mounts'[m].toastTimerRef = now + TOAST_DELAY
                /\ mounts'[m].timers = {now + TOAST_DELAY}
          /\ (mounts[m].toast # "" /\ mounts'[m].toast = "") =>
                /\ lastEvent' = [op |-> "toastTimeout", mount |-> m]
                /\ mounts[m].toastTimerRef # 0
                /\ mounts[m].toastTimerRef <= now]_vars

\* The toast of a zoom that came before the toast of the loaded molecule was
\* due has been hidden by its own timer.
C26_Witness ==
    /\ lastEvent = [op |-> "toastTimeout", mount |-> 1]
    /\ mounts[1].toast = ""
    /\ mounts[1].timers = {}
    /\ mounts[1].models # 0
    /\ mounts[1].view.scale # ratio(1, 1)
    /\ now <= TOAST_DELAY + TICK

\* C27: a torn down mount has no toast timer pending, and no timer callback
\* runs for it afterwards: its toast stays as the cleanup found it.
C27_TeardownCancelsTimer ==
    [][\A m \in 1..MaxMounts :
          /\ mounts'[m].phase = "unmounted" =>
                /\ mounts'[m].timers = {}
                /\ mounts'[m].toastTimerRef = 0
          /\ mounts[m].phase = "unmounted" =>
                /\ mounts'[m].toast = mounts[m].toast
                /\ lastEvent' # [op |-> "toastTimeout", mount |-> m]]_vars

\* The mount was torn down while the toast of a zoom was visible; time went
\* on to the end and the toast was never hidden.
C27_Witness ==
    /\ mounts[1].phase = "unmounted"
    /\ mounts[1].toast = "Zoomed out"
    /\ mounts[1].timers = {}
    /\ lastEvent.op = "tick"
    /\ now = MaxTicks * TICK

\* C28: a click on Reset View in a Ready mount that has a snapshot sets the
\* camera to the snapshot, which is that of the molecule on display, renders
\* and shows a toast; without a snapshot it changes nothing.
C28_ResetView ==
    [][\A m \in 1..MaxMounts :
          (lastEvent' = [op |-> "resetView", mount |-> m] /\ Ready(mounts[m])) =>
              IF mounts[m].defaultViewRef # <<>>
              THEN /\ mounts'[m].view = mounts[m].defaultViewRef[1]
                   /\ mounts[m].defaultViewRef[1].model = mounts[m].models
                   /\ vcalls' = <<"setView", "render">>
                   /\ mounts'[m].toast = "View reset"
                   /\ mounts'[m].timers = {now + TOAST_DELAY}
              ELSE /\ mounts'[m] = mounts[m]
                   /\ vcalls' = <<>>]_vars

\* Reset View was clicked with a snapshot: the camera is the snapshot.
C28_Witness ==
    /\ lastEvent = [op |-> "resetView", mount |-> 1]
    /\ vcalls = <<"setView", "render">>
    /\ mounts[1].defaultViewRef # <<>>
    /\ mounts[1].view = mounts[1].defaultViewRef[1]
    /\ mounts[1].toast = "View reset"

\* The camera scale after the step is num / den times the scale before.
Scaled(m, num, den) ==
    mounts'[m].view.scale.num * mounts[m].view.scale.den * den
        = mounts'[m].view.scale.den * mounts[m].view.scale.num * num

\* C29: a click on Zoom In or Zoom Out while the mount is not Ready changes
\* nothing and calls nothing; in a Ready mount it calls zoom once and render,
\* scales the camera by 10/12 and by 12/10, with an animation of 250 ms.
C29_Zoom ==
    [][\A m \in 1..MaxMounts :
          /\ lastEvent' = [op |-> "zoomIn", mount |-> m] =>
                IF Ready(mounts[m])
                THEN /\ vcalls' = <<"zoom", "render">>
                     /\ Scaled(m, 10, 12)
                     /\ mounts'[m].animation = 250
                ELSE /\ mounts'[m] = mounts[m]
                     /\ vcalls' = <<>>
          /\ lastEvent' = [op |-> "zoomOut", mount |-> m] =>
                IF Ready(mounts[m])
                THEN /\ vcalls' = <<"zoom", "render">>
                     /\ Scaled(m, 12, 10)
                     /\ mounts'[m].animation = 250
                ELSE /\ mounts'[m] = mounts[m]
                     /\ vcalls' = <<>>]_vars

\* Zoom In was clicked in a mount in Error that holds a viewer (its first
\* render had thrown): nothing was called and the camera is as it was.
C29_Witness ==
    /\ lastEvent = [op |-> "zoomIn", mount |-> 1]
    /\ mounts[1].phase = "mounted"
    /\ mounts[1].status.error = RENDER_FAILED
    /\ mounts[1].viewerRef
    /\ vcalls = <<>>
    /\ mounts[1].view.scale = ratio(1, 1)
    /\ mounts[1].toast = ""

\* The handler of the step called viewer.getView.
Captured == \E i \in DOMAIN vcalls' : vcalls'[i] = "getView"

\* C30: the default view is captured once for a molecule: no step captures
\* it for the molecule that is on display already.
C30_SnapshotOncePerMolecule ==
    [][\A m \in 1..MaxMounts :
          (lastEvent'.mount = m /\ Captured) =>
              mounts'[m].molecule # mounts[m].models]_vars

\* The atoms, with their adjacency, that the molecule effect builds for a
\* molecule prop.
AtomsOf(molecule) == build3DMolAtoms(moleculeProp(molecule))

\* The handler called removeAllModels once, addAtoms once, and in that order.
RemovedThenAdded(calls) ==
    /\ Cardinality({i \in DOMAIN calls : calls[i] = "removeAllModels"}) = 1
    /\ Cardinality({i \in DOMAIN calls : calls[i] = "addAtoms"}) = 1
    /\ \E i, j \in DOMAIN calls :
           i < j /\ calls[i] = "removeAllModels" /\ calls[j] = "addAtoms"

\* C31: a molecule supplied to a Ready viewer removes all models before its
\* atoms are added, after which the viewer holds exactly the atoms and the
\* adjacency of that molecule; and whenever the atoms a viewer holds change,
\* they become those of the molecule supplied last.
C31_RebuildOnNewMolecule ==
    [][\A m \in 1..MaxMounts :
          /\ ( /\ lastEvent' = [op |-> "molecule", mount |-> m]
               /\ Ready(mounts[m])
               /\ mounts'[m].molecule # 0 ) =>
                 /\ RemovedThenAdded(vcalls')
                 /\ mounts'[m].atoms = AtomsOf(mounts'[m].molecule)
          /\ ( /\ mounts'[m].atoms # mounts[m].atoms
               /\ mounts'[m].atoms # <<>> ) =>
                 /\ mounts'[m].molecule # 0
                 /\ mounts'[m].atoms = AtomsOf(mounts'[m].molecule)]_vars

\* Carbon dioxide was supplied to a Ready viewer: it holds the three atoms of
\* carbon dioxide with their double bonds and none of water.
C31_Witness ==
    /\ lastEvent = [op |-> "molecule", mount |-> 1]
    /\ Ready(mounts[1])
    /\ mounts[1].molecule = 2
    /\ RemovedThenAdded(vcalls)
    /\ Len(mounts[1].atoms) = 3
    /\ mounts[1].atoms[2].elem = "C"
    /\ mounts[1].atoms[2].bonds = <<0, 2>>
    /\ mounts[1].atoms[2].bondOrder = <<2, 2>>
    /\ mounts[1].atoms # AtomsOf(1)

\* Every atom that is not selected has the base style, and the atom of
\* selection slot i has entry i of the highlight palette.
StyledBySlot ==
    /\ \A s \in Serials :
           (\A i \in 1..Len(selectedAtoms) : selectedAtoms[i].serial # s) =>
               atomStyles[s] = BASE_STYLE
    /\ \A i \in 1..Len(selectedAtoms) :
           /\ i <= 2
           /\ atomStyles[selectedAtoms[i].serial] = HIGHLIGHT_STYLES[i]

\* C32: after every selection transition the unselected atoms carry the base
\* style and the atoms of slots 0 and 1 carry palette entries 0 and 1; an
\* atom that the transition moved from slot 1 to slot 0 had entry 1 and now
\* has entry 0.
C32_RestyleBySlot ==
    [][ /\ StyledBySlot'
        /\ ( /\ Len(selectedAtoms) = 2
             /\ Len(selectedAtoms') >= 1
             /\ selectedAtoms'[1].serial = selectedAtoms[2].serial ) =>
               /\ atomStyles[selectedAtoms[2].serial] = HIGHLIGHT_STYLES[2]
               /\ atomStyles'[selectedAtoms[2].serial] = HIGHLIGHT_STYLES[1]
      ]_vars

\* Serials 1, 5, 4 were clicked: 5 moved from slot 1 to slot 0 when 1 was
\* evicted and carries entry 0, 4 carries entry 1, 1 is back at the base style.
C32_Witness ==
    /\ Evicted
    /\ lastOp.click[1].serial = 4
    /\ SerialsOf(selectedAtoms) = <<5, 4>>
    /\ atomStyles[5] = HIGHLIGHT_COLORS[1]
    /\ atomStyles[4] = HIGHLIGHT_COLORS[2]
    /\ \A s \in Serials \ {4, 5} : atomStyles[s] = BASE_STYLE

\* The calls of one selection transition, in order, for the measurement
\* handle before it and the selection after it.
TransitionCalls(handle, sel) ==
    <<"setStyleAll">>
    \o [i \in 1..Len(sel) |-> "setStyleSerial"]
    \o (IF handle # 0 THEN <<"removeShape">> ELSE <<>>)
    \o (IF Len(sel) = 2 THEN <<"addCylinder">> ELSE <<>>)
    \o <<"render", "dispatchEvent">>

\* C33: a handler that changes the selection does, within its one step and
\* in this order: the restyle for the updated selection, the removal and
\* creation of the measurement primitive, one render, and last the one
\* notification, which carries the updated selection.
C33_TransitionOrder ==
    [][ (lastOp'.op \in {"select", "clear"} /\ selectedAtoms' # selectedAtoms) =>
            /\ trace' = TransitionCalls(measurementShape, selectedAtoms')
            /\ Occurrences(trace', "render") = 1
            /\ \A i, j \in DOMAIN trace' :
                   (trace'[i] = "render" /\ trace'[j] = "dispatchEvent") => i < j
            /\ Len(emitted') = 1
            /\ SerialsOf(emitted'[1].atoms) = SerialsOf(selectedAtoms')
      ]_vars

\* A third atom was clicked: two highlights, the old cylinder removed, the
\* new one added, one render, then the notification.
C33_Witness ==
    /\ Evicted
    /\ trace = <<"setStyleAll", "setStyleSerial", "setStyleSerial",
                 "removeShape", "addCylinder", "render", "dispatchEvent">>
    /\ Len(emitted) = 1
    /\ SerialsOf(emitted[1].atoms) = SerialsOf(selectedAtoms)

\* The neighbours atom i's record must hold: one per end of a valid bond at
\* i, in bond input order.
RECURSIVE ExpectedNeighbours(_, _, _)
ExpectedNeighbours(molecule, i, k) ==
    IF k = 0 THEN <<>>
    ELSE LET bond == bondsOf(molecule)[k]
         IN  ExpectedNeighbours(molecule, i, k - 1)
             \o (IF ValidBond(molecule, bond) /\ bond.atom1 = i
                 THEN <<bond.atom2>> ELSE <<>>)
             \o (IF ValidBond(molecule, bond) /\ bond.atom2 = i
                 THEN <<bond.atom1>> ELSE <<>>)

\* The number of adjacency entries of the first k output atoms.
RECURSIVE TotalEntries(_, _)
TotalEntries(out, k) ==
    IF k = 0 THEN 0 ELSE TotalEntries(out, k - 1) + Len(out[k].bonds)

\* C34: every valid bond adds one entry at each of its two ends, duplicates
\* included, in bond input order: the two lists of every atom have the same
\* length, the neighbour list is the list of the other ends of the valid
\* bonds at the atom in input order, a bond listed twice has two entries at
\* each end, and all records together hold twice as many entries as there
\* are valid bonds.
C34_OneEntryPerBondEnd ==
    Built =>
        LET molecule == adjInput[1]
            bonds    == bondsOf(molecule)
            valid    == {b \in 1..Len(bonds) : ValidBond(molecule, bonds[b])}
        IN  /\ \A k \in 1..Len(adjOutput) :
                   /\ Len(adjOutput[k].bonds) = Len(adjOutput[k].bondOrder)
                   /\ adjOutput[k].bonds =
                          ExpectedNeighbours(molecule, adjOutput[k].index, Len(bonds))
            /\ \A b1, b2 \in valid :
                   (b1 < b2 /\ bonds[b1] = bonds[b2] /\ bonds[b1].atom1 # bonds[b1].atom2) =>
                       /\ EntryCount(adjOutput, bonds[b1].atom1, bonds[b1].atom2,
                                     ExpectedOrder(bonds[b1])) >= 2
                       /\ EntryCount(adjOutput, bonds[b1].atom2, bonds[b1].atom1,
                                     ExpectedOrder(bonds[b1])) >= 2
            /\ TotalEntries(adjOutput, Len(adjOutput)) = 2 * Cardinality(valid)

\* The bond between atoms 0 and 1 listed twice: two entries at each end.
C34_Witness ==
    /\ Built
    /\ bondsOf(adjInput[1]) = <<[atom1 |-> 0, atom2 |-> 1, order |-> 2],
                                [atom1 |-> 0, atom2 |-> 1, order |-> 2]>>
    /\ RenderAtomOf(adjOutput, 0).bonds = <<1, 1>>
    /\ RenderAtomOf(adjOutput, 1).bonds = <<0, 0>>
    /\ RenderAtomOf(adjOutput, 1).bondOrder = <<2, 2>>
    /\ TotalEntries(adjOutput, Len(adjOutput)) = 4

\* The step mounts m: its initialisation effect ran.
Mounted(m) == mounts[m].phase = "none" /\ mounts'[m].phase = "mounted"

\* C35: when the page has the engine already, the initialisation effect
\* itself constructs the viewer and leaves the mount Ready: the step that
\* mounts the component ends with a viewer held and the status ready.
C35_SynchronousWhenResolved ==
    [][\A m \in 1..MaxMounts :
          (Mounted(m) /\ engineGlobal) =>
              /\ mounts'[m].viewerRef
              /\ Ready(mounts'[m])]_vars

\* C36: a resize event of the stand-alone page (window or observer) and a
\* resize event of the component call resize and then render, once each, on
\* the viewer that is held, change nothing else, and call nothing when no
\* viewer is held.
C36_ResizeCalls ==
    [][ /\ standOp' \in {"windowResize", "observerResize"} =>
               standCalls' = IF moleculeViewer THEN <<"resize", "render">> ELSE <<>>
        /\ \A m \in 1..MaxMounts :
               lastEvent' = [op |-> "resize", mount |-> m] =>
                   /\ vcalls' = IF mounts[m].viewerRef THEN <<"resize", "render">>
                                                       ELSE <<>>
                   /\ mounts'[m] = mounts[m]
      ]_vars

\* The observer of the stand-alone page fired with its viewer held, and the
\* window of the component was resized after its acquisition had failed, with
\* no viewer held: two calls there, none here.
C36_Witness ==
    /\ standOp = "observerResize"
    /\ moleculeViewer
    /\ standCalls = <<"resize", "render">>
    /\ lastEvent = [op |-> "resize", mount |-> 1]
    /\ mounts[1].status.error = LOAD_FAILED
    /\ ~ mounts[1].viewerRef
    /\ vcalls = <<>>

\* C37: a molecule that mount 1 was given while it was loading is on display
\* sooner or later, unless the acquisition or the construction fails, the
\* component is removed or the host passes another molecule.
C37_SuppliedWhileLoadingShown ==
    \A molecule \in 1..NumMolecules :
        ( /\ mounts[1].phase = "mounted"
          /\ mounts[1].status.loading
          /\ mounts[1].molecule = molecule )
        ~> ( \/ mounts[1].models = molecule
             \/ mounts[1].molecule # molecule
             \/ mounts[1].phase # "mounted"
             \/ mounts[1].status.error # "" )

\* C38: a mount whose status is an error holds no viewer, and the
\* stand-alone page that reports a failed initialisation holds none either.
C38_ErrorHoldsNoViewer ==
    /\ \A m \in 1..MaxMounts : InError(m) => ~ mounts[m].viewerRef
    /\ (~ viewerStatus.hidden /\ viewerStatus.text = INITIALISE_FAILED) =>
           ~ moleculeViewer

\* C39: every acquisition settles once the scripts have fired their one
\* event: a promise of load3DMol that is pending is settled by the load or
\* error handler of a script element that has yet to fire.
C39_AcquisitionSettles ==
    \A p \in 1..MaxMounts :
        promises[p].state = "pending" =>
            \E k \in 1..Len(scripts) :
                scripts[k].state = "loading" /\ p \in handlersOf(k)

============================================================================
